---- MODULE Spec2Model ----
(***************************************************************************)
(* Scan orchestration core of the aisec dashboard: ScanService (the        *)
(* revision in src/app/services/scan.service.ts with one logSub, and the   *)
(* later revision with one subscription per tool), its caller              *)
(* StartScreenComponent.start, FindingsService and the enrichment merge of *)
(* BedrockService.                                                         *)
(***************************************************************************)
EXTENDS Naturals, Integers, Sequences, FiniteSets, Bags, TLC

(* ------------------------------------------------------------------ *)
(* Bounds of the model                                                 *)
(* ------------------------------------------------------------------ *)
\* how many times StartScreenComponent.start() is run
MaxStarts == 1
\* how many log requests one polling loop issues
MaxPolls == 2
\* how many result file names the log endpoints deliver in all
MaxFetches == 2

(* ------------------------------------------------------------------ *)
(* Values                                                              *)
(* ------------------------------------------------------------------ *)
\* the two revisions of ScanService: "single" keeps one logSub,
\* "perTool" keeps logSubs[tool]
Revs == {"single", "perTool"}

\* the tools StartScreenComponent.start runs in parallel
Tools == {"semgrep", "harness"}

ScanPhase == {"idle", "starting", "scanning", "completed", "error"}

\* the task handle the start endpoint returns; NoTask is a response without taskId
TaskIds == {"t1"}
NoTask == "-"
\* the repo echoed back by the start call (or the normalized input)
Repo == "octocat/hello-world"

\* the value of a signal holding null
None == "null"
\* scanSession holding null
NoSession == [taskId |-> NoTask, repo |-> "", tool |-> "none"]

\* log lines: one that carries no result file name, and one per tool that
\* carries a file name of that tool's shape
LogLines == {"noise", "semgrep-results", "harness-results"}
\* cursors the log endpoint may return; "" is a chunk that omits the cursor
Cursors == {"", "c1", "c2"}
\* the request of a loop that has none in flight
NoReq == "no-request"

\* raw result payloads: one that normalizes to nothing and one that carries a result
Payloads == {"empty", "one"}

\* no structured report fetched, no completion text received
NoPayload == <<>>
NoText == <<>>

VARIABLES
    rev,            \* which revision of ScanService runs
    nStarts,        \* start() calls so far
    nFetches,       \* result requests issued so far
    startPending,   \* per tool: start requests in flight
    scanSession,    \* ScanService.scanSession
    scanPhase,      \* ScanService.scanPhase
    resultFile,     \* ScanService.resultFile
    logs,           \* ScanService.logs: the number of its entries
    logSubs,        \* the polling subscription of each tool
    resultReqs,     \* result requests in flight (a bag of [tool, file])
    fetchCount,     \* per tool: result requests issued by its current loop
    fetchErrors,    \* per tool: "Failed to fetch result" lines on the console
    findings,       \* FindingsService._all
    enrichPending,  \* enrichFindings calls in flight (a bag of batches)
    rawPayload,     \* the results of the structured report a result fetch returned
    aiText,         \* the text the completion service returned
    messages,       \* ChatService.messages
    streaming,      \* AiChatboxComponent.streaming
    abort,          \* AiChatboxComponent.abort: the reply its controller belongs to
    replies,        \* the invokeStream calls of streamReply, in call order
    effectPending   \* the effect of the chat box is scheduled to run

\* the state of the chat box and its service
chatVars == <<messages, streaming, abort, replies, effectPending>>

\* the state of the scan service, the findings store and the enrichment
scanVars == <<rev, nStarts, nFetches, startPending, scanSession, scanPhase, resultFile,
              logs, logSubs, resultReqs, fetchCount, fetchErrors, findings,
              enrichPending, rawPayload, aiText>>

vars == <<scanVars, chatVars>>

\* the chat box as constructed: no message, no reply, the effect about to run
\* for the first time
InitChat ==
    /\ messages = <<>>
    /\ streaming = FALSE
    /\ abort = 0
    /\ replies = <<>>
    /\ effectPending = TRUE

(* ------------------------------------------------------------------ *)
(* Adapter registry                                                    *)
(* ------------------------------------------------------------------ *)
\* ADAPTERS[tool].resultFilePattern, applied to a line: the file name matched, or None
resultFilePattern(tool, line) ==
    IF line = "semgrep-results" /\ tool = "semgrep" THEN line
    ELSE IF line = "harness-results" /\ tool = "harness" THEN line
    ELSE None

(* ------------------------------------------------------------------ *)
(* Findings store                                                      *)
(* ------------------------------------------------------------------ *)
\* a merge in which the fields of the existing record win
SpreadKeep(a, b) ==
    [k \in (DOMAIN a) \cup (DOMAIN b) |-> IF k \in DOMAIN a THEN a[k] ELSE b[k]]

\* { ...a, ...b } of two records
Spread(a, b) ==
    [k \in (DOMAIN a) \cup (DOMAIN b) |-> IF k \in DOMAIN b THEN b[k] ELSE a[k]]

\* position of id in the array, 0 when absent
IndexOfId(arr, id) ==
    IF \E i \in 1..Len(arr) : arr[i].id = id
    THEN CHOOSE i \in 1..Len(arr) : arr[i].id = id /\ \A j \in 1..(i-1) : arr[j].id # id
    ELSE 0

\* a store that appends every incoming record
MapSetAppend(arr, f) == Append(arr, f)

\* map.set(f.id, { ...map.get(f.id), ...f }) on the insertion-ordered map
MapSet(arr, f) ==
    LET i == IndexOfId(arr, f.id)
    IN  IF i = 0 THEN (IF "id" \in DOMAIN f THEN Append(arr, f) ELSE arr)
        ELSE [arr EXCEPT ![i] = Spread(arr[i], f)]

RECURSIVE MapSetAll(_, _)
MapSetAll(arr, list) ==
    IF list = <<>> THEN arr
    ELSE MapSetAll(MapSet(arr, Head(list)), Tail(list))

\* one entry of new Map(arr.map((f) => [f.id, f])): a later entry with the same
\* id replaces the value and keeps the place of the earlier one
MapPut(arr, f) ==
    LET i == IndexOfId(arr, f.id)
    IN  IF i = 0 THEN Append(arr, f) ELSE [arr EXCEPT ![i] = f]

RECURSIVE MapFrom(_, _)
MapFrom(acc, arr) ==
    IF arr = <<>> THEN acc ELSE MapFrom(MapPut(acc, Head(arr)), Tail(arr))

\* [...new Map(arr.map((f) => [f.id, f])).values()]
MapOf(arr) == MapFrom(<<>>, arr)

\* FindingsService.add
add(all, list) ==
    IF list = <<>> THEN all ELSE MapSetAll(MapOf(all), list)

\* FindingsService.byTool
byTool(all, tool) == SelectSeq(all, LAMBDA f : f.tool = tool)

\* a clear that ignores its argument and empties the store
clearEverything(all, tool) == <<>>

\* FindingsService.clear
clear(all, tool) ==
    IF tool = None THEN <<>> ELSE SelectSeq(all, LAMBDA f : f.tool # tool)

\* FindingsService.patch
patch(all, id, p) ==
    [i \in 1..Len(all) |-> IF all[i].id = id THEN Spread(all[i], p) ELSE all[i]]

(* ------------------------------------------------------------------ *)
(* Normalizers, as the result callback selects them                    *)
(* ------------------------------------------------------------------ *)
Undefined == "undefined"

\* a.mapResultToFindings(res, ctx) after the isSarif test of the callback: the
\* payload "one" is a one-element list without an id of its own
mapResultToFindings(r, tool, payload) ==
    IF payload = "empty" THEN <<>>
    ELSE IF tool = "semgrep"
         THEN << [id |-> "semgrep-0", tool |-> "semgrep", severity |-> "unknown"] >>
    ELSE IF r = "single"
         THEN <<>>
    ELSE << [id |-> "harness-img-latest", tool |-> "harness", severity |-> "medium"] >>

(* ------------------------------------------------------------------ *)
(* Enrichment merge                                                    *)
(* ------------------------------------------------------------------ *)
\* f.k of a record that may lack the key
Get(f, k) == IF k \in DOMAIN f THEN f[k] ELSE Undefined

\* a ?? b: b for an undefined or null a
Nullish(a, b) == IF a = Undefined \/ a = None THEN b ELSE a

\* a null element of the parsed array
NullEntry == [isNull |-> TRUE]

\* what tryParseJSON may give for a batch: no array, or an array of entries
\* mirroring the batch
AiResponses(batch) ==
    { [isArray |-> FALSE, items |-> <<>>],
      [isArray |-> TRUE,
       items |-> [i \in 1..Len(batch) |->
         [id |-> batch[i].id, aiExplanation |-> "why", aiRemediation |-> "fix"]]] }

\* a merge step that takes in an entry whose id is not in the batch
MergeAiInsert(arr, f) ==
    LET i == IndexOfId(arr, Get(f, "id"))
    IN  IF i = 0 THEN (IF "id" \in DOMAIN f THEN Append(arr, f) ELSE arr)
        ELSE [arr EXCEPT ![i] = Spread(arr[i],
                 [severity      |-> Nullish(Get(f, "severity"), Get(arr[i], "severity")),
                  aiExplanation |-> Nullish(Get(f, "aiExplanation"), Get(arr[i], "aiExplanation")),
                  aiRemediation |-> Nullish(Get(f, "aiRemediation"), Get(arr[i], "aiRemediation"))])]

\* one step of the merge loop of enrichFindings
MergeAi(arr, f) ==
    LET i == IndexOfId(arr, Get(f, "id"))
    IN  IF i = 0 THEN arr
        ELSE [arr EXCEPT ![i] = Spread(arr[i],
                 [severity      |-> Nullish(Get(f, "severity"), Get(arr[i], "severity")),
                  aiExplanation |-> Nullish(Get(f, "aiExplanation"), Get(arr[i], "aiExplanation")),
                  aiRemediation |-> Nullish(Get(f, "aiRemediation"), Get(arr[i], "aiRemediation"))])]

RECURSIVE MergeAiAll(_, _)
MergeAiAll(arr, maybe) ==
    IF maybe = <<>> THEN arr
    ELSE MergeAiAll(MergeAi(arr, Head(maybe)), Tail(maybe))

\* the merge loop of enrichFindings throws: f.id of a null element
enrichThrows(maybe) ==
    maybe.isArray /\ \E i \in 1..Len(maybe.items) : maybe.items[i] = NullEntry

\* an enrichment that resets the severity of the records the array omits
enrichFindingsReset(batch, maybe) ==
    IF ~maybe.isArray THEN batch
    ELSE LET merged == MergeAiAll(MapOf(batch), maybe.items)
         IN  [i \in 1..Len(merged) |->
                IF \E n \in 1..Len(maybe.items) : Get(maybe.items[n], "id") = merged[i].id
                THEN merged[i]
                ELSE Spread(merged[i], [severity |-> "unknown"])]

\* BedrockService.enrichFindings, given what the completion text parsed to
enrichFindings(batch, maybe) ==
    IF ~maybe.isArray THEN batch ELSE MergeAiAll(MapOf(batch), maybe.items)

(* ------------------------------------------------------------------ *)
(* Strings: a string is a sequence of one-character strings            *)
(* ------------------------------------------------------------------ *)
\* F applied to the value of e, computed once
Bind(e, F(_)) == CHOOSE y \in { F(x) : x \in {e} } : TRUE

\* the grave accent (code 96), which a string literal cannot hold
Backtick == "BACKTICK"

\* the printable characters in code order, from the space (code 32) on
Ascii ==
    << " ", "!", "\"", "#", "$", "%", "&", "'", "(", ")", "*", "+", ",", "-", ".", "/",
       "0", "1", "2", "3", "4", "5", "6", "7", "8", "9", ":", ";", "<", "=", ">", "?",
       "@", "A", "B", "C", "D", "E", "F", "G", "H", "I", "J", "K", "L", "M", "N", "O",
       "P", "Q", "R", "S", "T", "U", "V", "W", "X", "Y", "Z", "[", "\\", "]", "^", "_",
       Backtick, "a", "b", "c", "d", "e", "f", "g", "h", "i", "j", "k", "l", "m", "n", "o",
       "p", "q", "r", "s", "t", "u", "v", "w", "x", "y", "z", "{", "|", "}", "~" >>

\* String.prototype.charCodeAt of one character
charCodeAt(c) ==
    IF c = "\n" THEN 10
    ELSE IF c = "\t" THEN 9
    ELSE IF c = "\r" THEN 13
    ELSE 31 + (CHOOSE i \in 1..Len(Ascii) : Ascii[i] = c)

IsLetter(c) ==
    LET n == charCodeAt(c) IN (65 <= n /\ n <= 90) \/ (97 <= n /\ n <= 122)

IsDigit(c) == LET n == charCodeAt(c) IN 48 <= n /\ n <= 57

\* what \s, trim and trimEnd take for white space
IsSpace(c) == c \in {" ", "\n", "\t", "\r"}

\* String.prototype.toLowerCase
toLowerCase(s) ==
    [i \in 1..Len(s) |->
       LET n == charCodeAt(s[i])
       IN  IF 65 <= n /\ n <= 90 THEN Ascii[n + 32 - 31] ELSE s[i]]

\* s.slice(0, n)
slice(s, n) == SubSeq(s, 1, IF Len(s) < n THEN Len(s) ELSE n)

RECURSIVE trimStart(_)
trimStart(s) ==
    IF s # <<>> /\ IsSpace(Head(s)) THEN trimStart(Tail(s)) ELSE s

RECURSIVE trimEnd(_)
trimEnd(s) ==
    IF s # <<>> /\ IsSpace(s[Len(s)]) THEN trimEnd(SubSeq(s, 1, Len(s) - 1)) ELSE s

\* String.prototype.trim
trim(s) == trimEnd(trimStart(s))

\* s.startsWith(p) at the 1-based place i
StartsAt(s, i, p) ==
    /\ i + Len(p) - 1 <= Len(s)
    /\ \A k \in 1..Len(p) : s[i + k - 1] = p[k]

startsWith(s, p) == StartsAt(s, 1, p)

endsWith(s, p) == Len(p) <= Len(s) /\ StartsAt(s, Len(s) - Len(p) + 1, p)

\* s.indexOf(c) and s.lastIndexOf(c) as 1-based places, 0 for -1
indexOf(s, c) ==
    IF \E i \in 1..Len(s) : s[i] = c
    THEN CHOOSE i \in 1..Len(s) : s[i] = c /\ \A j \in 1..(i - 1) : s[j] # c
    ELSE 0

lastIndexOf(s, c) ==
    IF \E i \in 1..Len(s) : s[i] = c
    THEN CHOOSE i \in 1..Len(s) : s[i] = c /\ \A j \in (i + 1)..Len(s) : s[j] # c
    ELSE 0

(* ------------------------------------------------------------------ *)
(* JSON.parse, on the texts the model draws (no \u, \b, \f escapes)    *)
(* ------------------------------------------------------------------ *)
\* the character at a place, "" beyond the ends
At(s, i) == IF 1 <= i /\ i <= Len(s) THEN s[i] ELSE ""

\* a parsed value: its type and its content
JNull == [t |-> "null", v |-> <<>>]
JStr(x) == [t |-> "str", v |-> x]
JNum(x) == [t |-> "num", v |-> x]
JBool(x) == [t |-> "bool", v |-> x]
JArr(x) == [t |-> "arr", v |-> x]
JObj(x) == [t |-> "obj", v |-> x]

\* a SyntaxError
JFail == [ok |-> FALSE, v |-> JNull, next |-> 0]
JOk(x, n) == [ok |-> TRUE, v |-> x, next |-> n]

RECURSIVE SkipWs(_, _)
SkipWs(s, i) == IF At(s, i) # "" /\ IsSpace(s[i]) THEN SkipWs(s, i + 1) ELSE i

RECURSIVE SkipDigits(_, _)
SkipDigits(s, i) == IF At(s, i) # "" /\ IsDigit(s[i]) THEN SkipDigits(s, i + 1) ELSE i

\* the rest of a string literal, from the place after its opening quote
RECURSIVE ScanString(_, _, _)
ScanString(s, j, acc) ==
    LET c == At(s, j)
    IN  IF c = "" THEN JFail
        ELSE IF c = "\"" THEN JOk(JStr(acc), j + 1)
        ELSE IF c = "\\"
             THEN LET e == At(s, j + 1)
                  IN  IF e \in {"\"", "\\", "/"} THEN ScanString(s, j + 2, Append(acc, e))
                      ELSE IF e = "n" THEN ScanString(s, j + 2, Append(acc, "\n"))
                      ELSE IF e = "t" THEN ScanString(s, j + 2, Append(acc, "\t"))
                      ELSE IF e = "r" THEN ScanString(s, j + 2, Append(acc, "\r"))
                      ELSE JFail
        ELSE IF charCodeAt(c) < 32 THEN JFail
        ELSE ScanString(s, j + 1, Append(acc, c))

\* a number literal at place i: the place after it, 0 for none
NumberEnd(s, i) ==
    LET j0 == IF At(s, i) = "-" THEN i + 1 ELSE i
        j1 == IF At(s, j0) = "0" THEN j0 + 1 ELSE SkipDigits(s, j0)
        j2 == IF At(s, j1) = "." THEN SkipDigits(s, j1 + 1) ELSE j1
        k  == IF At(s, j2) \in {"e", "E"}
              THEN (IF At(s, j2 + 1) \in {"+", "-"} THEN j2 + 2 ELSE j2 + 1)
              ELSE j2
        j3 == IF k = j2 THEN j2 ELSE SkipDigits(s, k)
    IN  IF j1 = j0 THEN 0
        ELSE IF At(s, j1) = "." /\ j2 = j1 + 1 THEN 0
        ELSE IF k # j2 /\ j3 = k THEN 0
        ELSE j3

RECURSIVE ParseValue(_, _)
RECURSIVE ParseElems(_, _, _)
RECURSIVE ParseMembers(_, _, _)

\* the elements of an array from place k on, after those in acc
ParseElems(s, k, acc) ==
    LET r == ParseValue(s, k)
        n == SkipWs(s, r.next)
    IN  IF ~r.ok THEN JFail
        ELSE IF At(s, n) = "," THEN ParseElems(s, SkipWs(s, n + 1), Append(acc, r.v))
        ELSE IF At(s, n) = "]" THEN JOk(JArr(Append(acc, r.v)), n + 1)
        ELSE JFail

\* the members of an object from place k on, after those in acc
ParseMembers(s, k, acc) ==
    IF At(s, k) # "\"" THEN JFail
    ELSE LET key == ScanString(s, k + 1, <<>>)
             c   == SkipWs(s, key.next)
             r   == ParseValue(s, SkipWs(s, c + 1))
             n   == SkipWs(s, r.next)
         IN  IF ~key.ok \/ At(s, c) # ":" THEN JFail
             ELSE IF ~r.ok THEN JFail
             ELSE IF At(s, n) = ","
                  THEN ParseMembers(s, SkipWs(s, n + 1), Append(acc, <<key.v.v, r.v>>))
             ELSE IF At(s, n) = "}"
                  THEN JOk(JObj(Append(acc, <<key.v.v, r.v>>)), n + 1)
             ELSE JFail

ParseValue(s, i) ==
    LET c == At(s, i)
    IN  IF c = "" THEN JFail
        ELSE IF c = "\"" THEN ScanString(s, i + 1, <<>>)
        ELSE IF c = "["
             THEN LET k == SkipWs(s, i + 1)
                  IN  IF At(s, k) = "]" THEN JOk(JArr(<<>>), k + 1)
                      ELSE ParseElems(s, k, <<>>)
        ELSE IF c = "{"
             THEN LET k == SkipWs(s, i + 1)
                  IN  IF At(s, k) = "}" THEN JOk(JObj(<<>>), k + 1)
                      ELSE ParseMembers(s, k, <<>>)
        ELSE IF StartsAt(s, i, <<"t", "r", "u", "e">>) THEN JOk(JBool(TRUE), i + 4)
        ELSE IF StartsAt(s, i, <<"f", "a", "l", "s", "e">>) THEN JOk(JBool(FALSE), i + 5)
        ELSE IF StartsAt(s, i, <<"n", "u", "l", "l">>) THEN JOk(JNull, i + 4)
        ELSE IF c = "-" \/ IsDigit(c)
             THEN LET e == NumberEnd(s, i)
                  IN  IF e = 0 THEN JFail ELSE JOk(JNum(SubSeq(s, i, e - 1)), e)
        ELSE JFail

\* JSON.parse(s): the value, or a SyntaxError
JSONParse(s) ==
    LET r == ParseValue(s, SkipWs(s, 1))
    IN  IF r.ok /\ SkipWs(s, r.next) = Len(s) + 1 THEN r ELSE JFail

(* ------------------------------------------------------------------ *)
(* BedrockService.tryParseJSON                                         *)
(* ------------------------------------------------------------------ *)
Fence == <<Backtick, Backtick, Backtick>>

RECURSIVE SkipLetters(_, _)
SkipLetters(s, i) == IF At(s, i) # "" /\ IsLetter(s[i]) THEN SkipLetters(s, i + 1) ELSE i

\* s.replace(/```[a-zA-Z]*\n?|```/g, ''), from place i on
RECURSIVE StripFences(_, _)
StripFences(s, i) ==
    IF i > Len(s) THEN <<>>
    ELSE IF StartsAt(s, i, Fence)
         THEN LET j == SkipLetters(s, i + 3)
              IN  StripFences(s, IF At(s, j) = "\n" THEN j + 1 ELSE j)
    ELSE <<s[i]>> \o StripFences(s, i + 1)

\* the walk of repairLikelyJSONArray from place i on: lastBalancedIdx at its end
RECURSIVE RepairWalk(_, _, _, _, _, _)
RepairWalk(str, i, depth, inStr, esc, lastBalancedIdx) ==
    IF i > Len(str) THEN lastBalancedIdx
    ELSE LET ch == str[i]
         IN  IF inStr
             THEN IF esc THEN RepairWalk(str, i + 1, depth, TRUE, FALSE, lastBalancedIdx)
                  ELSE IF ch = "\\"
                       THEN RepairWalk(str, i + 1, depth, TRUE, TRUE, lastBalancedIdx)
                  ELSE IF ch = "\""
                       THEN RepairWalk(str, i + 1, depth, FALSE, FALSE, lastBalancedIdx)
                  ELSE RepairWalk(str, i + 1, depth, TRUE, FALSE, lastBalancedIdx)
             ELSE LET d == IF ch = "\"" THEN depth
                           ELSE IF ch \in {"[", "{"} THEN depth + 1
                           ELSE IF ch \in {"]", "}"}
                                THEN (IF depth - 1 > 0 THEN depth - 1 ELSE 0)
                           ELSE depth
                  IN  RepairWalk(str, i + 1, d, ch = "\"", FALSE,
                                 IF d = 0 THEN i ELSE lastBalancedIdx)

\* candidate.replace(/,\s*$/, '')
DropTrailingComma(candidate) ==
    LET t == trimEnd(candidate)
    IN  IF endsWith(t, <<",">>) THEN SubSeq(t, 1, Len(t) - 1) ELSE candidate

\* no string: the null repairLikelyJSONArray returns
NoRepair == [ok |-> FALSE, s |-> <<>>]

\* a repair that closes the text where it ends and drops nothing
repairKeepAll(s) ==
    LET str == trim(s)
    IN  IF indexOf(str, "[") = 0 THEN NoRepair
        ELSE [ok |-> TRUE, s |-> SubSeq(str, indexOf(str, "["), Len(str)) \o <<"]">>]

\* BedrockService.repairLikelyJSONArray; places are 1-based, 0 stands for -1
repairLikelyJSONArray(s) == Bind(trim(s), LAMBDA str :
    LET firstBracket == indexOf(str, "[")
        lastBalancedIdx == RepairWalk(str, firstBracket, 0, FALSE, FALSE, 0)
        lastSq == lastIndexOf(str, "]")
        lastCu == lastIndexOf(str, "}")
        cutIdx == IF lastBalancedIdx >= 1 THEN lastBalancedIdx
                  ELSE IF lastSq > lastCu THEN lastSq ELSE lastCu
        cut == SubSeq(str, 1, cutIdx)
        closed == IF endsWith(trimEnd(cut), <<"]">>) THEN cut
                  ELSE DropTrailingComma(cut) \o <<"]">>
        ctrim == trim(SubSeq(closed, firstBracket, Len(closed)))
    IN  IF firstBracket = 0 THEN NoRepair
        ELSE IF cutIdx < 1 THEN NoRepair
        ELSE IF ~(startsWith(ctrim, <<"[">>) /\ endsWith(ctrim, <<"]">>)) THEN NoRepair
        ELSE [ok |-> TRUE, s |-> ctrim])

\* step 2 of tryParseJSON: up to n layers of JSON.parse while the value is a string
RECURSIVE Destringify(_, _)
Destringify(s, n) ==
    IF n = 0 THEN [isString |-> TRUE, s |-> s, v |-> JNull]
    ELSE Bind(JSONParse(s), LAMBDA r :
           IF ~r.ok THEN [isString |-> TRUE, s |-> s, v |-> JNull]
           ELSE IF r.v.t = "str" THEN Destringify(r.v.v, n - 1)
           ELSE [isString |-> FALSE, s |-> <<>>, v |-> r.v])

\* the layers of JSON.parse step 2 of tryParseJSON tries
ParseLayers == 3

\* steps 4 and 5 of tryParseJSON on the string step 2 left
ParseOrRepair(s) ==
    Bind(JSONParse(s), LAMBDA p4 :
      IF p4.ok THEN p4.v
      ELSE Bind(repairLikelyJSONArray(s), LAMBDA repaired :
             IF ~repaired.ok THEN JNull
             ELSE Bind(JSONParse(repaired.s), LAMBDA p5 :
                    IF p5.ok THEN p5.v ELSE JNull)))

\* step 1 of tryParseJSON: trim, and strip the code fences of a fenced text
Unfence(text) ==
    Bind(trim(text), LAMBDA t0 :
      IF startsWith(t0, Fence) THEN trim(StripFences(t0, 1)) ELSE t0)

\* BedrockService.tryParseJSON: the parsed value, JNull for null. A number or a
\* boolean left by step 2 goes to the repair as its text, which holds no "[".
tryParseJSON(text) ==
    IF text = <<>> THEN JNull
    ELSE Bind(Unfence(text), LAMBDA t1 :
           Bind(Destringify(t1, ParseLayers), LAMBDA d :
             IF ~d.isString
             THEN (IF d.v.t \in {"arr", "obj", "null"} THEN d.v ELSE JNull)
             ELSE ParseOrRepair(d.s)))

(* ------------------------------------------------------------------ *)
(* BedrockService.sanitizeForAI and the request of enrichFindings      *)
(* ------------------------------------------------------------------ *)
\* the default caps of sanitizeForAI
maxSnippet == 800
maxMsg == 400

\* location: undefined
NoLocation == [undefined |-> TRUE]

\* a sanitizer that leaves the message and the raw payload as they are
sanitizeKeepAll(f) == f

\* one record of sanitizeForAI's map
sanitizeOne(f) ==
    Spread(f,
      [message  |-> slice(IF "message" \in DOMAIN f THEN f.message ELSE <<>>, maxMsg),
       location |-> IF "location" \in DOMAIN f
                    THEN Spread(f.location,
                           [snippet |-> slice(IF "snippet" \in DOMAIN f.location
                                              THEN f.location.snippet ELSE <<>>,
                                              maxSnippet)])
                    ELSE NoLocation,
       raw      |-> Undefined])

\* BedrockService.sanitizeForAI
sanitizeForAI(list) == [i \in 1..Len(list) |-> sanitizeOne(list[i])]

\* a property JSON.stringify leaves out: its value is undefined
IsUndefinedIn(f, k) ==
    IF k = "message" THEN FALSE
    ELSE IF k = "location" THEN "undefined" \in DOMAIN f.location
    ELSE f[k] = Undefined

\* the findings array as JSON.stringify(input) writes it into the prompt
aiRequest(list) ==
    LET input == sanitizeForAI(list)
    IN  [i \in 1..Len(input) |->
           [k \in { x \in DOMAIN input[i] : ~IsUndefinedIn(input[i], x) } |-> input[i][k]]]

(* ------------------------------------------------------------------ *)
(* From the completion text to the array enrichFindings merges         *)
(* ------------------------------------------------------------------ *)
\* the property names and values the model tells apart
Words == {"id", "severity", "aiExplanation", "aiRemediation", "x",
          "a", "b", "zz", "high", "bogus", "why", "fix", "1", "2"}

\* a word as a string of characters
Spell(w) ==
    CASE w = "id" -> <<"i", "d">>
      [] w = "severity" -> <<"s", "e", "v", "e", "r", "i", "t", "y">>
      [] w = "aiExplanation" ->
           <<"a", "i", "E", "x", "p", "l", "a", "n", "a", "t", "i", "o", "n">>
      [] w = "aiRemediation" ->
           <<"a", "i", "R", "e", "m", "e", "d", "i", "a", "t", "i", "o", "n">>
      [] w = "x" -> <<"x">>
      [] w = "a" -> <<"a">>
      [] w = "b" -> <<"b">>
      [] w = "zz" -> <<"z", "z">>
      [] w = "high" -> <<"h", "i", "g", "h">>
      [] w = "bogus" -> <<"b", "o", "g", "u", "s">>
      [] w = "why" -> <<"w", "h", "y">>
      [] w = "fix" -> <<"f", "i", "x">>
      [] w = "1" -> <<"1">>
      [] w = "2" -> <<"2">>

\* the word a string of characters spells, "other" for any other string
Atom(cs) ==
    IF \E w \in Words : Spell(w) = cs THEN CHOOSE w \in Words : Spell(w) = cs
    ELSE "other"

\* a parsed property value as the merge reads it
ValueOf(v) ==
    IF v.t = "null" THEN None
    ELSE IF v.t \in {"str", "num"} THEN Atom(v.v)
    ELSE "other"

\* an element of the parsed array as the merge loop reads it: null, an
\* object (a later member of a name replaces an earlier one), a scalar
ToEntry(v) ==
    IF v.t = "null" THEN NullEntry
    ELSE IF v.t = "obj" /\ v.v = <<>> THEN [empty |-> TRUE]
    ELSE IF v.t = "obj"
         THEN [k \in { Atom(v.v[i][1]) : i \in 1..Len(v.v) } |->
                 LET i == CHOOSE i \in 1..Len(v.v) :
                            /\ Atom(v.v[i][1]) = k
                            /\ \A j \in (i + 1)..Len(v.v) : Atom(v.v[j][1]) # k
                 IN  ValueOf(v.v[i][2])]
    ELSE [scalar |-> TRUE]

\* maybe, as the test `!maybe || !Array.isArray(maybe)` and the loop see it
ToReply(parsed) ==
    IF parsed.t = "arr"
    THEN [isArray |-> TRUE, items |-> [i \in 1..Len(parsed.v) |-> ToEntry(parsed.v[i])]]
    ELSE [isArray |-> FALSE, items |-> <<>>]

(* ------------------------------------------------------------------ *)
(* Polling subscriptions                                               *)
(* ------------------------------------------------------------------ *)
\* a tool that never had a polling loop
NoSub == [status |-> "none", taskId |-> NoTask, cursor |-> "", req |-> NoReq, polls |-> 0]

\* streamLogs(taskId, tool).subscribe(...): startWith(0) issues the first log
\* request at once, with no cursor
NewSub(taskId) ==
    [status |-> "active", taskId |-> taskId, cursor |-> "", req |-> "", polls |-> 1]

\* Subscription.unsubscribe(): ends a running loop and cancels its log request;
\* no effect on a closed one
unsubscribe(s) ==
    IF s.status = "active" THEN [s EXCEPT !.status = "stopped", !.req = NoReq] ELSE s

\* the lines of the chunks the log endpoint may answer with: none, plain
\* output, a result file name of either tool's shape, the same line twice
ChunkLines ==
    { <<>>, <<"noise">>, <<"semgrep-results">>, <<"harness-results">>,
      <<"semgrep-results", "semgrep-results">>,
      <<"harness-results", "harness-results">>,
      <<"noise", "semgrep-results">>, <<"noise", "harness-results">> }

Chunks ==
    { [lines |-> ls, end |-> e, cursor |-> c] :
        ls \in ChunkLines, e \in BOOLEAN, c \in Cursors }

\* the chunks of a log endpoint that never supplies a cursor
ChunksNoCursor == { ch \in Chunks : ch.cursor = "" }

\* the file names a chunk's lines match, in line order
RECURSIVE Matches(_, _)
Matches(tool, lines) ==
    IF lines = <<>> THEN <<>>
    ELSE LET f == resultFilePattern(tool, Head(lines))
         IN  IF f = None THEN Matches(tool, Tail(lines))
             ELSE <<f>> \o Matches(tool, Tail(lines))

\* the bag holding the result requests of one chunk
RECURSIVE ReqBag(_, _)
ReqBag(tool, files) ==
    IF files = <<>> THEN EmptyBag
    ELSE SetToBag({[tool |-> tool, file |-> Head(files)]})
         (+) ReqBag(tool, Tail(files))

\* the next: handler of startLogPolling, on the lines of one chunk: nothing
\* for an empty chunk, else one entry per line
nextLogs(l, lines) == IF lines = <<>> THEN l ELSE l + Len(lines)

(* ------------------------------------------------------------------ *)
(* Init                                                                *)
(* ------------------------------------------------------------------ *)
Init ==
    /\ rev \in Revs
    /\ nStarts = 0
    /\ nFetches = 0
    /\ startPending = [t \in Tools |-> 0]
    /\ scanSession = NoSession
    /\ scanPhase = "idle"
    /\ resultFile = None
    /\ logs = 0
    /\ logSubs = [t \in Tools |-> NoSub]
    /\ resultReqs = EmptyBag
    /\ fetchCount = [t \in Tools |-> 0]
    /\ fetchErrors = [t \in Tools |-> 0]
    /\ findings = <<>>
    /\ enrichPending = EmptyBag
    /\ rawPayload = NoPayload
    /\ aiText = NoText
    /\ InitChat

(* ------------------------------------------------------------------ *)
(* ScanService operations                                              *)
(* ------------------------------------------------------------------ *)
\* ScanService.markStarted
markStarted(taskId, repo, tool) ==
    /\ scanSession' = [taskId |-> taskId, repo |-> repo, tool |-> tool]
    /\ scanPhase' = "scanning"

\* ScanService.startLogPolling: the single-subscription revision cancels
\* whatever loop is running and resets the log buffer, the per-tool revision
\* cancels only that tool's loop and appends
startLogPolling(taskId, tool) ==
    /\ logSubs' = [t \in Tools |->
                     IF t = tool THEN NewSub(taskId)
                     ELSE IF rev = "single" THEN unsubscribe(logSubs[t])
                     ELSE logSubs[t]]
    /\ logs' = IF rev = "single" THEN 1 ELSE logs + 1
    /\ fetchCount' = [fetchCount EXCEPT ![tool] = 0]

\* ScanService.stopLogPolling: of the one subscription, or of one tool or all
StopLogPollingWith(arg) ==
    /\ logSubs' = [t \in Tools |->
                     IF rev = "single" \/ arg = None \/ arg = t
                     THEN unsubscribe(logSubs[t]) ELSE logSubs[t]]
    /\ logSubs' # logSubs
    /\ UNCHANGED <<chatVars, rev, rawPayload, aiText, nStarts, nFetches, startPending, scanSession, scanPhase,
                   resultFile, logs, resultReqs, fetchCount, fetchErrors,
                   findings, enrichPending>>

StopLogPolling == \E arg \in Tools \cup {None} : StopLogPollingWith(arg)

\* ScanService.clearSession
ClearSession ==
    /\ scanSession' = NoSession
    /\ scanPhase' = "idle"
    /\ resultFile' = None
    /\ UNCHANGED <<chatVars, rev, rawPayload, aiText, nStarts, nFetches, startPending, logs, logSubs, resultReqs,
                   fetchCount, fetchErrors, findings, enrichPending>>

(* ------------------------------------------------------------------ *)
(* StartScreenComponent                                                *)
(* ------------------------------------------------------------------ *)
\* start() of a StartScreenComponent whose phase lets it run (a new one is
\* constructed with phase idle on every visit of the start screen; the service
\* is a root singleton and outlives it): ScanService.startScan for each tool of
\* ts, which sets scanPhase and posts the start request. The component runs
\* semgrep and harness in parallel; its earlier revision ran semgrep alone
Start(ts) ==
    /\ nStarts < MaxStarts
    /\ nStarts' = nStarts + 1
    /\ scanPhase' = "starting"
    /\ startPending' = [t \in Tools |-> IF t \in ts THEN startPending[t] + 1
                                       ELSE startPending[t]]
    /\ UNCHANGED <<chatVars, rev, rawPayload, aiText, nFetches, scanSession, resultFile, logs, logSubs, resultReqs,
                   fetchCount, fetchErrors, findings, enrichPending>>

\* the start request of a tool answers: without a taskId the per-tool revision
\* throws inside startScan and the caller's error handler logs, the other
\* revision's caller logs and returns; with one, markStarted and startLogPolling
StartResponseWith(tool, taskId) ==
    /\ startPending[tool] > 0
    /\ startPending' = [startPending EXCEPT ![tool] = @ - 1]
    /\ IF taskId = NoTask
       THEN UNCHANGED <<scanSession, scanPhase, logSubs, logs, fetchCount>>
       ELSE /\ markStarted(taskId, Repo, tool)
            /\ startLogPolling(taskId, tool)
    /\ UNCHANGED <<chatVars, rev, rawPayload, aiText, nStarts, nFetches, resultFile, resultReqs, fetchErrors,
                   findings, enrichPending>>

StartResponse(tool) == \E taskId \in TaskIds \cup {NoTask} : StartResponseWith(tool, taskId)

\* the start request of a tool fails: the caller's error handler logs
StartError(tool) ==
    /\ startPending[tool] > 0
    /\ startPending' = [startPending EXCEPT ![tool] = @ - 1]
    /\ UNCHANGED <<chatVars, rev, rawPayload, aiText, nStarts, nFetches, scanSession, scanPhase, resultFile, logs,
                   logSubs, resultReqs, fetchCount, fetchErrors, findings,
                   enrichPending>>

(* ------------------------------------------------------------------ *)
(* The polling loop of streamLogs, as subscribed by startLogPolling    *)
(* ------------------------------------------------------------------ *)
\* the interval left running after takeWhile has ended the stream
TickAfterEnd(tool) ==
    LET s == logSubs[tool] IN
    /\ s.status \in {"active", "completed"}
    /\ s.polls < MaxPolls
    /\ logSubs' = [logSubs EXCEPT ![tool] = [s EXCEPT !.req = s.cursor, !.polls = @ + 1]]
    /\ UNCHANGED <<chatVars, rev, rawPayload, aiText, nStarts, nFetches, startPending, scanSession, scanPhase,
                   resultFile, logs, resultReqs, fetchCount, fetchErrors,
                   findings, enrichPending>>

\* interval(1200) fires: switchMap drops the request in flight, if any, and
\* issues a new one that carries the current cursor
Tick(tool) ==
    LET s == logSubs[tool] IN
    /\ s.status = "active"
    /\ s.polls < MaxPolls
    /\ logSubs' = [logSubs EXCEPT ![tool] = [s EXCEPT !.req = s.cursor, !.polls = @ + 1]]
    /\ UNCHANGED <<chatVars, rev, rawPayload, aiText, nStarts, nFetches, startPending, scanSession, scanPhase,
                   resultFile, logs, resultReqs, fetchCount, fetchErrors,
                   findings, enrichPending>>

\* the complete: handler of startLogPolling, applied to the phase
completePhase(p) == IF rev = "single" THEN "completed" ELSE p

\* the complete: handler of startLogPolling, applied to the log buffer
completeLogs(l) == l + 1

\* the tap with a fetch issued twice for every matching line
tapFilesTwice(tool, lines) == Matches(tool, lines) \o Matches(tool, lines)

\* the result requests the tap of streamLogs issues for one chunk: one for
\* every line that matches the tool's pattern
tapFiles(tool, lines) == Matches(tool, lines)

\* a cursor update that takes whatever the chunk holds
nextCursorOverwrite(cursor, ch) == ch.cursor

\* cursor = ch.cursor || cursor
nextCursor(cursor, ch) == IF ch.cursor # "" THEN ch.cursor ELSE cursor

\* a log request answers with chunk ch: the cursor is kept, takeWhile lets the
\* chunk through and ends the loop on end, the tap fetches the result of every
\* matching line, the subscriber appends the lines
PollResponseWith(tool, ch) ==
    LET s == logSubs[tool]
        files == tapFiles(tool, ch.lines)
        shown == nextLogs(logs, ch.lines)
    IN  /\ s.status = "active"
        /\ s.req # NoReq
        /\ nFetches + Len(files) <= MaxFetches
        /\ nFetches' = nFetches + Len(files)
        /\ logSubs' = [logSubs EXCEPT ![tool] =
              [s EXCEPT !.cursor = nextCursor(s.cursor, ch),
                        !.req = NoReq,
                        !.status = IF ch.end THEN "completed" ELSE "active"]]
        /\ resultFile' = IF files = <<>> THEN resultFile ELSE files[Len(files)]
        /\ resultReqs' = resultReqs (+) ReqBag(tool, files)
        /\ fetchCount' = [fetchCount EXCEPT ![tool] = @ + Len(files)]
        /\ logs' = IF ch.end THEN completeLogs(shown) ELSE shown
        /\ scanPhase' = IF ch.end THEN completePhase(scanPhase) ELSE scanPhase
        /\ UNCHANGED <<chatVars, rev, rawPayload, aiText, nStarts, startPending, scanSession, fetchErrors,
                       findings, enrichPending>>

PollResponse(tool, chunks) == \E ch \in chunks : PollResponseWith(tool, ch)

\* what a failed log request leaves of the loop: the error passes through
\* switchMap and ends the stream
pollErrorSub(s) == [s EXCEPT !.status = "errored", !.req = NoReq]

\* a log request fails: the error: handler of startLogPolling runs
PollError(tool) ==
    LET s == logSubs[tool] IN
    /\ s.status = "active"
    /\ s.req # NoReq
    /\ logSubs' = [logSubs EXCEPT ![tool] = pollErrorSub(s)]
    /\ scanPhase' = IF rev = "single" THEN "error" ELSE scanPhase
    /\ logs' = logs + 1
    /\ UNCHANGED <<chatVars, rev, rawPayload, aiText, nStarts, nFetches, startPending, scanSession, resultFile,
                   resultReqs, fetchCount, fetchErrors, findings, enrichPending>>

(* ------------------------------------------------------------------ *)
(* Result fetch and enrichment callbacks                               *)
(* ------------------------------------------------------------------ *)
\* the phase the next: callback of the result fetch leaves
resultPhase(p) == "completed"

\* the result request r answers with a payload: normalize, add to the store,
\* start the enrichment, set the phase
ResultResponseOf(r, payload) ==
    LET normalized == mapResultToFindings(rev, r.tool, payload) IN
    /\ BagIn(r, resultReqs)
    /\ resultReqs' = resultReqs (-) SetToBag({r})
    /\ findings' = add(findings, normalized)
    /\ enrichPending' = enrichPending (+) SetToBag({normalized})
    /\ scanPhase' = resultPhase(scanPhase)
    /\ UNCHANGED <<chatVars, rev, rawPayload, aiText, nStarts, nFetches, startPending, scanSession, resultFile,
                   logs, logSubs, fetchCount, fetchErrors>>

ResultResponse ==
    \E r \in BagToSet(resultReqs), payload \in Payloads : ResultResponseOf(r, payload)

\* a failed result request that is issued again
ResultErrorRetryOf(r) ==
    /\ BagIn(r, resultReqs)
    /\ nFetches < MaxFetches
    /\ nFetches' = nFetches + 1
    /\ fetchErrors' = [fetchErrors EXCEPT ![r.tool] = @ + 1]
    /\ fetchCount' = [fetchCount EXCEPT ![r.tool] = @ + 1]
    /\ UNCHANGED <<chatVars, rev, rawPayload, aiText, nStarts, startPending, scanSession, scanPhase, resultFile,
                   logs, logSubs, resultReqs, findings, enrichPending>>

\* the result request r fails: the error is written to the console, nothing else
ResultErrorOf(r) ==
    /\ BagIn(r, resultReqs)
    /\ resultReqs' = resultReqs (-) SetToBag({r})
    /\ fetchErrors' = [fetchErrors EXCEPT ![r.tool] = @ + 1]
    /\ UNCHANGED <<chatVars, rev, rawPayload, aiText, nStarts, nFetches, startPending, scanSession, scanPhase,
                   resultFile, logs, logSubs, fetchCount, findings, enrichPending>>

ResultError == \E r \in BagToSet(resultReqs) : ResultErrorOf(r)

\* enrichFindings resolves for a batch, the completion text having parsed to
\* maybe: the enriched batch is added to the store
EnrichResolveOf(batch, maybe) ==
    /\ BagIn(batch, enrichPending)
    /\ ~enrichThrows(maybe)
    /\ enrichPending' = enrichPending (-) SetToBag({batch})
    /\ findings' = add(findings, enrichFindings(batch, maybe))
    /\ UNCHANGED <<chatVars, rev, rawPayload, aiText, nStarts, nFetches, startPending, scanSession, scanPhase,
                   resultFile, logs, logSubs, resultReqs, fetchCount, fetchErrors>>

EnrichResolve ==
    \E batch \in BagToSet(enrichPending) :
      \E maybe \in AiResponses(batch) : EnrichResolveOf(batch, maybe)

\* a rejected enrichment that puts the session into the error phase
EnrichRejectErrorOf(batch) ==
    /\ BagIn(batch, enrichPending)
    /\ enrichPending' = enrichPending (-) SetToBag({batch})
    /\ scanPhase' = "error"
    /\ UNCHANGED <<chatVars, rev, rawPayload, aiText, nStarts, nFetches, startPending, scanSession, resultFile,
                   logs, logSubs, resultReqs, fetchCount, fetchErrors, findings>>

\* enrichFindings rejects for a batch (the completion call failed, or the
\* merge loop threw): caught and logged
EnrichRejectOf(batch) ==
    /\ BagIn(batch, enrichPending)
    /\ enrichPending' = enrichPending (-) SetToBag({batch})
    /\ UNCHANGED <<chatVars, rev, rawPayload, aiText, nStarts, nFetches, startPending, scanSession, scanPhase,
                   resultFile, logs, logSubs, resultReqs, fetchCount, fetchErrors,
                   findings>>

EnrichReject == \E batch \in BagToSet(enrichPending) : EnrichRejectOf(batch)

(* ------------------------------------------------------------------ *)
(* Specification                                                       *)
(* ------------------------------------------------------------------ *)
NextFor(ts, chunks) ==
    \/ Start(ts)
    \/ \E t \in ts : StartResponse(t)
    \/ \E t \in ts : StartError(t)
    \/ \E t \in ts : Tick(t)
    \/ \E t \in ts : PollResponse(t, chunks)
    \/ \E t \in ts : PollError(t)
    \/ ResultResponse
    \/ ResultError
    \/ EnrichResolve
    \/ EnrichReject
    \/ ClearSession
    \/ StopLogPolling

\* both tools in parallel, log endpoints that supply no cursor
Next == NextFor(Tools, ChunksNoCursor)

Spec == Init /\ [][Next]_vars

\* the chunks of a log endpoint that serves the scanner's task only: no line
\* has the shape of the other tool's result file name
ScannerChunks ==
    { ch \in Chunks : \A i \in 1..Len(ch.lines) : ch.lines[i] # "harness-results" }

\* the scanner alone, cursors included
NextScanner == NextFor({"semgrep"}, ScannerChunks)

SpecScanner == Init /\ [][NextScanner]_vars

(* ------------------------------------------------------------------ *)
(* The findings store and the enrichment call, driven directly         *)
(* ------------------------------------------------------------------ *)
\* enrichment calls in flight at a time
MaxPending == 1

\* ids the normalizers give
StoreIds == {"a", "c"}

\* Severity of the finding model
Severities == {"critical", "high", "medium", "low", "info", "unknown"}

\* records as a normalizer returns them: the scanner's under either id, the
\* other tool's under an id the scanner's normalizer may give too
NormA == [id |-> "a", tool |-> "semgrep", severity |-> "low"]

NormRecords ==
    { NormA,
      [id |-> "a", tool |-> "harness", severity |-> "low"],
      [id |-> "c", tool |-> "semgrep", severity |-> "low"] }

\* the non-empty lists a normalizer returns
NormBatches ==
    { <<r>> : r \in NormRecords } \cup { <<NormA, q>> : q \in NormRecords \ {NormA} }

\* lists handed to add by other callers: none, a normalizer's, or a record
\* that carries enrichment fields already
AddLists ==
    {<<>>} \cup NormBatches \cup
    { << [id |-> "a", tool |-> "semgrep", severity |-> "info",
          aiExplanation |-> "old", aiRemediation |-> "old"] >> }

\* Partial<Finding> values handed to patch
Patches == { [tool |-> "harness", severity |-> "high"] }

\* the list loadMockFindings stores, in its order
Mock ==
    << [id |-> "semgrep-001", tool |-> "semgrep", severity |-> "medium"],
       [id |-> "semgrep-002", tool |-> "semgrep", severity |-> "high"],
       [id |-> "semgrep-003", tool |-> "semgrep", severity |-> "low"],
       [id |-> "semgrep-002", tool |-> "semgrep", severity |-> "high"],
       [id |-> "semgrep-003", tool |-> "semgrep", severity |-> "low"],
       [id |-> "vanta-001", tool |-> "vanta", severity |-> "medium"],
       [id |-> "harness-001", tool |-> "harness", severity |-> "medium"],
       [id |-> "semgrep-004", tool |-> "semgrep", severity |-> "medium"] >>

\* FindingsService.loadMockFindings
loadMockFindings(all) == Mock

\* what the parsed array may hold for a record of the batch: the id alone,
\* the enrichment fields, a severity with them, a severity outside the enum
AiEntries(r) ==
    { [id |-> r.id],
      [id |-> r.id, aiExplanation |-> "why", aiRemediation |-> "fix"],
      [id |-> r.id, severity |-> "high", aiExplanation |-> "why", aiRemediation |-> "fix"],
      [id |-> r.id, severity |-> "bogus"] }

\* arrays that name records of the batch, each at most once, in batch order
AiArrays(m) ==
    IF Len(m) = 1
    THEN {<<>>} \cup { <<e>> : e \in AiEntries(m[1]) }
    ELSE {<<>>} \cup { <<e>> : e \in AiEntries(m[1]) \cup AiEntries(m[2]) }
         \cup { <<e, g>> : e \in AiEntries(m[1]), g \in AiEntries(m[2]) }

\* what tryParseJSON may give for a batch: no array; an array naming records
\* of the batch; an array with an entry of an unknown id, with an entry
\* without id, with a null element
AiReplies(batch) ==
    { [isArray |-> FALSE, items |-> <<>>] } \cup
    { [isArray |-> TRUE, items |-> a] : a \in AiArrays(MapOf(batch)) } \cup
    { [isArray |-> TRUE, items |-> a] :
        a \in { << [id |-> "zz", aiExplanation |-> "why"] >>,
                << [aiExplanation |-> "why"] >>,
                << NullEntry >> } }

\* add called with a list
Add(list) ==
    /\ findings' = add(findings, list)
    /\ UNCHANGED <<chatVars, rev, rawPayload, aiText, nStarts, nFetches, startPending, scanSession, scanPhase,
                   resultFile, logs, logSubs, resultReqs, fetchCount, fetchErrors,
                   enrichPending>>

\* clear called with a tool, or with none
Clear(tool) ==
    /\ findings' = clear(findings, tool)
    /\ UNCHANGED <<chatVars, rev, rawPayload, aiText, nStarts, nFetches, startPending, scanSession, scanPhase,
                   resultFile, logs, logSubs, resultReqs, fetchCount, fetchErrors,
                   enrichPending>>

\* patch called with an id and a partial record
Patch(id, p) ==
    /\ findings' = patch(findings, id, p)
    /\ UNCHANGED <<chatVars, rev, rawPayload, aiText, nStarts, nFetches, startPending, scanSession, scanPhase,
                   resultFile, logs, logSubs, resultReqs, fetchCount, fetchErrors,
                   enrichPending>>

\* loadMockFindings, called at any time: the store is set to the mock list
LoadMockFindings ==
    /\ findings' = loadMockFindings(findings)
    /\ UNCHANGED <<chatVars, rev, rawPayload, aiText, nStarts, nFetches, startPending, scanSession, scanPhase,
                   resultFile, logs, logSubs, resultReqs, fetchCount, fetchErrors,
                   enrichPending>>

\* the result callback of streamLogs with the normalizer's output: added to
\* the store, handed to enrichFindings, phase completed
Normalized(batch) ==
    /\ BagCardinality(enrichPending) < MaxPending
    /\ findings' = add(findings, batch)
    /\ enrichPending' = enrichPending (+) SetToBag({batch})
    /\ scanPhase' = resultPhase(scanPhase)
    /\ UNCHANGED <<chatVars, rev, rawPayload, aiText, nStarts, nFetches, startPending, scanSession, resultFile,
                   logs, logSubs, resultReqs, fetchCount, fetchErrors>>

\* the completion call of a batch returns text that parsed to maybe
EnrichAnswerOf(batch, maybe) ==
    IF enrichThrows(maybe) THEN EnrichRejectOf(batch) ELSE EnrichResolveOf(batch, maybe)

EnrichAnswer ==
    \E batch \in BagToSet(enrichPending) :
      \E maybe \in AiReplies(batch) : EnrichAnswerOf(batch, maybe)

NextStore ==
    \/ \E list \in AddLists : Add(list)
    \/ \E tool \in Tools \cup {None} : Clear(tool)
    \/ \E id \in StoreIds, p \in Patches : Patch(id, p)
    \/ LoadMockFindings
    \/ \E batch \in NormBatches : Normalized(batch)
    \/ EnrichAnswer
    \/ EnrichReject

\* the store's operations in any order, in the service revision that goes
\* with the store that loads the mock
InitStore == Init /\ rev = "perTool"

SpecStore == InitStore /\ [][NextStore]_vars

(* ------------------------------------------------------------------ *)
(* The completion text parsed and merged                               *)
(* ------------------------------------------------------------------ *)
\* a completion text naming two records
TextFull ==
    << "[", "{", "\"", "i", "d", "\"", ":", "\"", "a", "\"", ",", "\"", "x", "\"", ":",
       "1", "}", ",", "{", "\"", "i", "d", "\"", ":", "\"", "b", "\"", ",", "\"", "x",
       "\"", ":", "2", "}", "]" >>

\* TextFull cut after its first n characters
Truncated(n) == SubSeq(TextFull, 1, n)

\* a completion text with the three fields for one record
TextEnriched ==
    << "[", "{", "\"", "i", "d", "\"", ":", "\"", "a", "\"", ",", "\"", "s", "e", "v",
       "e", "r", "i", "t", "y", "\"", ":", "\"", "h", "i", "g", "h", "\"", ",", "\"",
       "a", "i", "E", "x", "p", "l", "a", "n", "a", "t", "i", "o", "n", "\"", ":",
       "\"", "w", "h", "y", "\"", ",", "\"", "a", "i", "R", "e", "m", "e", "d", "i",
       "a", "t", "i", "o", "n", "\"", ":", "\"", "f", "i", "x", "\"", "}", "]" >>

\* a completion text with a severity for one record, inside a code fence
TextFenced ==
    Fence \o <<"j", "s", "o", "n", "\n">>
    \o << "[", "{", "\"", "i", "d", "\"", ":", "\"", "b", "\"", ",", "\"", "s", "e", "v",
           "e", "r", "i", "t", "y", "\"", ":", "\"", "h", "i", "g", "h", "\"", "}", "]" >>
    \o <<"\n">> \o Fence

\* an array encoded as a JSON string
TextDoubleEncoded ==
    << "\"", "[", "{", "\\", "\"", "i", "d", "\\", "\"", ":", "\\", "\"", "b", "\\",
       "\"", ",", "\\", "\"", "s", "e", "v", "e", "r", "i", "t", "y", "\\", "\"", ":",
       "\\", "\"", "b", "o", "g", "u", "s", "\\", "\"", "}", "]", "\"" >>

\* a completion text with a complete array between prose
TextProse ==
    << "H", "e", "r", "e", ":", " ", "[", "{", "\"", "i", "d", "\"", ":", "\"", "a", "\"",
       "}", "]", " ", "d", "o", "n", "e" >>

\* texts with a null element, with an object, with no JSON, with a trailing
\* comma, with a brace inside a string before the cut, with prose around the
\* array, with elements that name no record
TextOthers ==
    { << "[", "n", "u", "l", "l", "]" >>,
      << "{", "\"", "i", "d", "\"", ":", "\"", "a", "\"", "}" >>,
      << "S", "o", "r", "r", "y", ",", " ", "n", "o", " ", "J", "S", "O", "N", "." >>,
      << "[", "{", "\"", "i", "d", "\"", ":", "\"", "b", "\"", ",", "\"", "s", "e", "v", "e",
   "r", "i", "t", "y", "\"", ":", "\"", "h", "i", "g", "h", "\"", "}", ",", "]" >>,
      << "[", "{", "\"", "i", "d", "\"", ":", "\"", "a", "\"", ",", "\"", "x", "\"", ":",
   "\"", "}", "\"", "}", ",", "{", "\"", "i", "d", "\"", ":", "\"", "b", "\"" >>,
      TextProse,
      << "[", "{", "\"", "i", "d", "\"", ":", "\"", "z", "z", "\"", ",", "\"", "a", "i", "E",
   "x", "p", "l", "a", "n", "a", "t", "i", "o", "n", "\"", ":", "\"", "w", "h", "y",
   "\"", "}", ",", " ", "1", ",", " ", "{", "}", "]" >> }

\* the texts the completion service may return
AiTexts ==
    { Truncated(n) : n \in 0..Len(TextFull) }
    \cup {TextEnriched, TextFenced, TextDoubleEncoded} \cup TextOthers

\* a string of n characters
LongString(n) == [i \in 1..n |-> IF i % 2 = 0 THEN "a" ELSE "b"]

\* records as a normalizer returns them, with a message and a snippet over,
\* at and under the caps, with and without a location, with the raw result
RawA ==
    [id |-> "a", tool |-> "semgrep", severity |-> "low",
     message |-> LongString(maxMsg + 1),
     location |-> [file |-> "f.py", snippet |-> LongString(maxSnippet + 1)],
     raw |-> "result"]

RawB ==
    [id |-> "b", tool |-> "semgrep", severity |-> "low",
     message |-> LongString(maxMsg),
     location |-> [file |-> "f.py"],
     raw |-> "result"]

RawC ==
    [id |-> "a", tool |-> "semgrep", severity |-> "medium",
     message |-> <<>>,
     raw |-> "result"]

RawBatches == { <<RawA>>, <<RawB>>, <<RawC>>, <<RawA, RawB>> }

\* the promise of enrichFindings settles for a batch whose completion text is aiText
EnrichText ==
    \E batch \in BagToSet(enrichPending) :
      \E maybe \in {ToReply(tryParseJSON(aiText))} : EnrichAnswerOf(batch, maybe)

NextBedrock ==
    \/ \E batch \in RawBatches : Normalized(batch)
    \/ EnrichText
    \/ EnrichReject

\* the result callback and the enrichment, for every text the completion
\* service may return
InitBedrock ==
    /\ rev = "perTool"
    /\ nStarts = 0
    /\ nFetches = 0
    /\ startPending = [t \in Tools |-> 0]
    /\ scanSession = NoSession
    /\ scanPhase = "idle"
    /\ resultFile = None
    /\ logs = 0
    /\ logSubs = [t \in Tools |-> NoSub]
    /\ resultReqs = EmptyBag
    /\ fetchCount = [t \in Tools |-> 0]
    /\ fetchErrors = [t \in Tools |-> 0]
    /\ findings = <<>>
    /\ enrichPending = EmptyBag
    /\ rawPayload = NoPayload
    /\ aiText \in AiTexts
    /\ InitChat

SpecBedrock == InitBedrock /\ [][NextBedrock]_vars

(* ------------------------------------------------------------------ *)
(* The normalizers of the result callback                              *)
(* ------------------------------------------------------------------ *)
\* the digits of Number.prototype.toString(36)
Digits36 ==
    << "0", "1", "2", "3", "4", "5", "6", "7", "8", "9", "a", "b", "c", "d", "e", "f",
       "g", "h", "i", "j", "k", "l", "m", "n", "o", "p", "q", "r", "s", "t", "u", "v",
       "w", "x", "y", "z" >>

\* a 32-bit value is kept as its two 16-bit halves
Half == 65536

\* n.toString(radix) of the value hi * 65536 + lo, for a radix up to 36
RECURSIVE toStringRadix(_, _, _)
toStringRadix(hi, lo, radix) ==
    LET t == (hi % radix) * Half + lo
    IN  IF hi = 0 /\ lo < radix THEN <<Digits36[lo + 1]>>
        ELSE toStringRadix(hi \div radix, t \div radix, radix) \o <<Digits36[(t % radix) + 1]>>

\* one round of the loop of hashId, h = (h * 31 + input.charCodeAt(i)) | 0, on
\* the halves of h
HashStep(h, c) ==
    Bind(h, LAMBDA v :
      LET l == v[2] * 31 + charCodeAt(c)
      IN  <<(v[1] * 31 + (l \div Half)) % Half, l % Half>>)

\* the rounds of the loop of hashId for the places from to to, in their order,
\* starting from h
RECURSIVE HashFrom(_, _, _, _)
HashFrom(input, from, to, h) ==
    IF from > to THEN h
    ELSE IF from = to THEN HashStep(h, input[from])
    ELSE LET mid == (from + to) \div 2
         IN  Bind(HashFrom(input, from, mid, h),
                  LAMBDA x : HashFrom(input, mid + 1, to, x))

\* Math.abs of the 32-bit signed value with the halves h
AbsHalves(h) ==
    IF h[1] < Half \div 2 THEN h
    ELSE IF h[2] = 0 THEN <<Half - h[1], 0>>
    ELSE <<Half - 1 - h[1], Half - h[2]>>

\* hashId
hashId(input) ==
    Bind(AbsHalves(HashFrom(input, 1, Len(input), <<0, 0>>)), LAMBDA h : toStringRadix(h[1], h[2], 36))

\* the words toSeverity knows
SeverityWords ==
    [critical |-> <<"c", "r", "i", "t", "i", "c", "a", "l">>,
     blocker  |-> <<"b", "l", "o", "c", "k", "e", "r">>,
     high     |-> <<"h", "i", "g", "h">>,
     error    |-> <<"e", "r", "r", "o", "r">>,
     medium   |-> <<"m", "e", "d", "i", "u", "m">>,
     warning  |-> <<"w", "a", "r", "n", "i", "n", "g">>,
     low      |-> <<"l", "o", "w">>,
     note     |-> <<"n", "o", "t", "e">>,
     info     |-> <<"i", "n", "f", "o">>]

\* a toSeverity that compares its input as it is written
toSeverityExact(s) ==
    IF s = SeverityWords.critical \/ s = SeverityWords.blocker THEN "critical"
    ELSE IF s = SeverityWords.high \/ s = SeverityWords.error THEN "high"
    ELSE IF s = SeverityWords.medium \/ s = SeverityWords.warning THEN "medium"
    ELSE IF s = SeverityWords.low \/ s = SeverityWords.note \/ s = SeverityWords.info
         THEN "low"
    ELSE "unknown"

\* toSeverity; an absent argument is the empty string
toSeverity(s) ==
    Bind(toLowerCase(s), LAMBDA v :
      IF v = SeverityWords.critical \/ v = SeverityWords.blocker THEN "critical"
      ELSE IF v = SeverityWords.high \/ v = SeverityWords.error THEN "high"
      ELSE IF v = SeverityWords.medium \/ v = SeverityWords.warning THEN "medium"
      ELSE IF v = SeverityWords.low \/ v = SeverityWords.note \/ v = SeverityWords.info
           THEN "low"
      ELSE "unknown")

\* a || b on strings: b for an empty (or absent) a
OrElse(a, b) == IF a = <<>> THEN b ELSE a

\* the characters of the message kept in the id
IdMessageLen == 140

\* no rule of the driver matches: driverRules[ruleId] is undefined
NoRule == [id |-> <<>>, severity |-> <<>>, level |-> <<>>]

\* driverRules[ruleId]: the last rule of the driver with that id; a rule
\* without id is not in the table
RECURSIVE driverRule(_, _)
driverRule(rules, ruleId) ==
    IF rules = <<>> THEN NoRule
    ELSE LET last == rules[Len(rules)]
         IN  IF last.id # <<>> /\ last.id = ruleId THEN last
             ELSE driverRule(SubSeq(rules, 1, Len(rules) - 1), ruleId)

\* a resolution that asks the rule's configured level before its properties
sevRawLevelFirst(level, severity, ruleSeverity, ruleLevel) ==
    OrElse(level, OrElse(severity, OrElse(ruleLevel, ruleSeverity)))

\* sevRaw: the level of the result, the severity of its properties, the
\* severity of the rule's properties, the level of the rule's default
\* configuration; <<>> stands for undefined
sevRaw(level, severity, ruleSeverity, ruleLevel) ==
    OrElse(level, OrElse(severity, OrElse(ruleSeverity, ruleLevel)))

\* the record mapSemgrepSarifToFindings gives the result r at index idx (from 0)
sarifFinding(r, idx, createdAt, rules) ==
    LET file == r.uri
        line == r.startLine
        ruleId == OrElse(r.ruleId, <<"r", "u", "l", "e">>)
        rule == driverRule(rules, ruleId)
        sev == sevRaw(r.level, r.severity, rule.severity, rule.level)
        message == trim(r.text)
        idBase == ruleId \o <<"|">> \o file \o <<"|">>
                  \o (IF line = 0 THEN <<>> ELSE toStringRadix(0, line, 10))
                  \o <<"|">> \o slice(message, IdMessageLen)
    IN  [id |-> hashId(idBase) \o <<"-">> \o toStringRadix(0, idx, 36),
         tool |-> "semgrep",
         ruleId |-> ruleId,
         message |-> message,
         severity |-> toSeverity(sev),
         location |-> [file |-> file, line |-> line],
         createdAt |-> createdAt,
         raw |-> r,
         ruleSeverity |-> sev]

\* mapSemgrepSarifToFindings(sarif, ctx) on the results and the driver's rules
\* of the first run
mapSemgrepSarifToFindings(results, rules, createdAt) ==
    [i \in 1..Len(results) |-> sarifFinding(results[i], i - 1, createdAt, rules)]

\* one record of the flattened-array path of SemgrepAdapter.mapResultToFindings at
\* index i (from 0); an item is a record that may hold id, ruleId and severity
genericFinding(r, i) ==
    [id |-> IF "id" \in DOMAIN r THEN r.id
            ELSE <<"s", "e", "m", "g", "r", "e", "p", "-">> \o toStringRadix(0, i, 10),
     tool |-> "semgrep",
     ruleId |-> IF "ruleId" \in DOMAIN r THEN r.ruleId ELSE <<"r", "u", "l", "e">>,
     message |-> <<>>,
     severity |-> IF "severity" \in DOMAIN r THEN r.severity ELSE "unknown",
     location |-> [file |-> Undefined, line |-> Undefined, snippet |-> Undefined],
     fingerprints |-> Undefined,
     raw |-> r]

\* an image finding whose id holds the time of the normalization
harnessImageFindingTimed(img, createdAt) ==
    [id |-> <<"h", "a", "r", "n", "e", "s", "s", "-", "i", "m", "g", "-">> \o img.imageName \o <<"-", createdAt>>,
     tool |-> "harness",
     ruleId |-> <<"H", "A", "R", "N", "E", "S", "S", "-", "C", "I", "-", "I", "M", "A", "G", "E", "-",
  "T", "A", "G", "-", "L", "A", "T", "E", "S", "T">>,
     severity |-> "medium",
     location |-> [file |-> <<"p", "i", "p", "e", "l", "i", "n", "e", "s", "/", "b", "u", "i", "l", "d", ".", "y",
  "a", "m", "l">>,
                   snippet |-> img.imageName \o <<":">> \o img.imageTag],
     createdAt |-> createdAt,
     raw |-> img]

\* the record HarnessAdapter.mapResultToFindings pushes for an image
harnessImageFinding(img, createdAt) ==
    [id |-> <<"h", "a", "r", "n", "e", "s", "s", "-", "i", "m", "g", "-">> \o img.imageName \o <<"-", "l", "a", "t", "e", "s", "t">>,
     tool |-> "harness",
     ruleId |-> <<"H", "A", "R", "N", "E", "S", "S", "-", "C", "I", "-", "I", "M", "A", "G", "E", "-",
  "T", "A", "G", "-", "L", "A", "T", "E", "S", "T">>,
     severity |-> "medium",
     location |-> [file |-> <<"p", "i", "p", "e", "l", "i", "n", "e", "s", "/", "b", "u", "i", "l", "d", ".", "y",
  "a", "m", "l">>,
                   snippet |-> img.imageName \o <<":">> \o img.imageTag],
     createdAt |-> createdAt,
     raw |-> img]

\* the record it pushes for a stage node
harnessStageFinding(node, createdAt) ==
    [id |-> <<"h", "a", "r", "n", "e", "s", "s", "-", "s", "t", "a", "g", "e", "-", "i", "g", "n",
  "o", "r", "e", "-">>
            \o OrElse(node.nodeUuid, OrElse(node.nodeIdentifier, <<"s", "t", "a", "g", "e">>)),
     tool |-> "harness",
     ruleId |-> <<"H", "A", "R", "N", "E", "S", "S", "-", "C", "I", "-", "S", "T", "A", "G", "E", "-",
  "I", "G", "N", "O", "R", "E", "F", "A", "I", "L", "E", "D">>,
     severity |-> "low",
     location |-> [file |-> <<"p", "i", "p", "e", "l", "i", "n", "e", "s", "/", "b", "u", "i", "l", "d", ".", "y",
  "a", "m", "l">>],
     createdAt |-> createdAt,
     raw |-> node]

\* the images the first loop of HarnessAdapter.mapResultToFindings flags
RECURSIVE harnessImages(_, _)
harnessImages(images, createdAt) ==
    IF images = <<>> THEN <<>>
    ELSE LET img == Head(images)
         IN  (IF img.imageName # <<>> /\ toLowerCase(trim(img.imageTag)) = <<"l", "a", "t", "e", "s", "t">>
              THEN <<harnessImageFinding(img, createdAt)>> ELSE <<>>)
             \o harnessImages(Tail(images), createdAt)

\* the stage nodes its second loop flags
RECURSIVE harnessStages(_, _)
harnessStages(nodes, createdAt) ==
    IF nodes = <<>> THEN <<>>
    ELSE LET node == Head(nodes)
         IN  (IF node.status = <<"I", "g", "n", "o", "r", "e", "F", "a", "i", "l", "e", "d">>
              THEN <<harnessStageFinding(node, createdAt)>> ELSE <<>>)
             \o harnessStages(Tail(nodes), createdAt)

\* isSarif(payload): runs is an array and the results of its first run are one
isSarif(payload) == "runs" \in DOMAIN payload /\ payload.runs # <<>>

\* the normalization of the result callback: the structured report of the
\* scanner, its flattened array, the execution summary of the pipeline tool,
\* and a payload no normalizer understands
normalize(payload, createdAt) ==
    IF payload.tool = "semgrep" /\ isSarif(payload)
    THEN mapSemgrepSarifToFindings(payload.runs[1].results, payload.runs[1].rules, createdAt)
    ELSE IF payload.tool = "semgrep" /\ payload.kind = "list"
    THEN [i \in 1..Len(payload.items) |-> genericFinding(payload.items[i], i - 1)]
    ELSE IF payload.tool = "harness" /\ payload.kind = "summary"
    THEN harnessImages(payload.images, createdAt) \o harnessStages(payload.nodes, createdAt)
    ELSE <<>>

\* the times new Date() may give
Times == {"t1", "t2"}

\* a message longer than the part the id keeps, ending in the character c
LongMessage(c) == [i \in 1..(IdMessageLen + 1) |-> IF i > IdMessageLen THEN c ELSE "m"]

\* a result of the structured report
SarifResult(ruleId, uri, startLine, text, level) ==
    [ruleId |-> ruleId, uri |-> uri, startLine |-> startLine, text |-> text,
     level |-> level, severity |-> <<>>]

\* results that differ in rule, file, line and message, that differ in the level
\* only, in the white space around the message only, and in the message beyond
\* the part the id keeps only
SarifKeys ==
    { SarifResult(<<"r", "1">>, <<"f">>, 12, <<"m">>, <<"e", "r", "r", "o", "r">>),
      SarifResult(<<"r", "1">>, <<"f">>, 12, <<"m">>, <<"w", "a", "r", "n", "i", "n", "g">>),
      SarifResult(<<"r", "1">>, <<"f">>, 12, <<" ", "m", " ">>, <<"e", "r", "r", "o", "r">>),
      SarifResult(<<"r", "2">>, <<"f">>, 12, <<"m">>, <<"e", "r", "r", "o", "r">>),
      SarifResult(<<>>, <<>>, 0, LongMessage("a"), <<>>),
      SarifResult(<<>>, <<>>, 0, LongMessage("b"), <<>>) }

\* the levels a result may carry
SarifLevels ==
    { <<"e", "r", "r", "o", "r">>,
      <<"w", "a", "r", "n", "i", "n", "g">>,
      <<"n", "o", "t", "e">>,
      <<"b", "l", "o", "c", "k", "e", "r">>,
      <<"i", "n", "f", "o">>,
      <<"c", "r", "i", "t", "i", "c", "a", "l">>,
      <<"h", "i", "g", "h">>,
      <<"m", "e", "d", "i", "u", "m">>,
      <<"l", "o", "w">>,
      <<"E", "R", "R", "O", "R">>,
      <<"W", "a", "r", "n", "i", "n", "g">>,
      <<"N", "O", "T", "E">>,
      <<"B", "l", "o", "c", "k", "e", "r">>,
      <<"I", "N", "F", "O">>,
      <<"C", "r", "i", "t", "i", "c", "a", "l">>,
      <<"n", "o", "n", "e">>,
      <<"e", "r", "r", "o", "r", "s">>,
      <<" ", "e", "r", "r", "o", "r">>,
      <<"u", "n", "k", "n", "o", "w", "n">>,
      <<"d", "e", "b", "u", "g">> }

\* a rule of the driver: its id, the severity of its properties and the
\* level of its default configuration
SarifRule(id, severity, level) == [id |-> id, severity |-> severity, level |-> level]

\* the rules a driver may declare: none; one with both values, with either,
\* with neither; one of another id; one without id; two of the same id; one
\* whose id is the default rule id
SarifRules ==
    { <<>>,
      <<SarifRule(<<"r", "1">>, <<"e", "r", "r", "o", "r">>, <<"n", "o", "t", "e">>)>>,
      <<SarifRule(<<"r", "1">>, <<"e", "r", "r", "o", "r">>, <<>>)>>,
      <<SarifRule(<<"r", "1">>, <<>>, <<"n", "o", "t", "e">>)>>,
      <<SarifRule(<<"r", "1">>, <<>>, <<>>)>>,
      <<SarifRule(<<"r", "2">>, <<"e", "r", "r", "o", "r">>, <<"n", "o", "t", "e">>)>>,
      <<SarifRule(<<>>, <<"e", "r", "r", "o", "r">>, <<"n", "o", "t", "e">>)>>,
      <<SarifRule(<<"r", "1">>, <<"e", "r", "r", "o", "r">>, <<>>),
        SarifRule(<<"r", "1">>, <<>>, <<"n", "o", "t", "e">>)>>,
      <<SarifRule(<<"r", "u", "l", "e">>, <<>>, <<"e", "r", "r", "o", "r">>)>> }

\* a run of a structured report: the rules of its driver and its results
SarifRun(rules, results) == [rules |-> rules, results |-> results]

\* a structured report of the scanner with the runs given
Sarif(runs) == [tool |-> "semgrep", kind |-> "sarif", runs |-> runs]

\* the payloads a result fetch may return
RawPayloads ==
    { Sarif(<<SarifRun(<<>>, <<r>>)>>) : r \in SarifKeys }
    \cup { Sarif(<<SarifRun(<<>>, <<r, q>>)>>) :
             r \in SarifKeys, q \in SarifKeys }
    \cup { Sarif(<<SarifRun(<<>>, <<SarifResult(<<"r", "1">>, <<"f">>, 12, <<"m">>, l)>>)>>) :
             l \in SarifLevels }
    \cup { Sarif(<<SarifRun(<<>>,
              <<[ruleId |-> <<"r", "1">>, uri |-> <<"f">>, startLine |-> 12,
                           text |-> <<"m">>, level |-> <<>>, severity |-> l]>>)>>) :
             l \in {<<"W", "a", "r", "n", "i", "n", "g">>, <<>>} }
    \cup { [tool |-> "semgrep", kind |-> "list", items |-> i] :
             i \in { <<>>,
                     <<[severity |-> "ERROR"], [ruleId |-> <<"r", "1">>]>>,
                     <<[id |-> <<"x">>], [id |-> <<"x">>, severity |-> "high"]>> } }
    \cup { [tool |-> "harness", kind |-> "summary", images |-> i, nodes |-> n] :
             i \in { <<>>,
                     <<[imageName |-> <<"i", "m", "g">>, imageTag |-> <<" ", "L", "a", "t", "e", "s", "t">>]>>,
                     <<[imageName |-> <<"i", "m", "g">>, imageTag |-> <<"l", "a", "t", "e", "s", "t">>],
                       [imageName |-> <<"i", "m", "g">>, imageTag |-> <<"1", ".", "2">>],
                       [imageName |-> <<>>, imageTag |-> <<"l", "a", "t", "e", "s", "t">>]>> },
             n \in { <<>>,
                     <<[status |-> <<"I", "g", "n", "o", "r", "e", "F", "a", "i", "l", "e", "d">>, nodeUuid |-> <<>>,
                        nodeIdentifier |-> <<"n", "1">>],
                       [status |-> <<"S", "u", "c", "c", "e", "s", "s">>, nodeUuid |-> <<"u">>,
                        nodeIdentifier |-> <<"n", "2">>]>> } }
    \cup { [tool |-> "semgrep", kind |-> "list", items |-> i] :
             i \in { <<NullEntry>>,
                     <<[id |-> <<"x">>], NullEntry>>,
                     <<[scalar |-> TRUE]>> } }
    \cup { Sarif(<<SarifRun(rs,
              <<[ruleId |-> id, uri |-> <<"f">>, startLine |-> 12,
                           text |-> <<"m">>, level |-> l, severity |-> p]>>)>>) :
             rs \in SarifRules, id \in {<<"r", "1">>, <<>>},
             l \in {<<>>, <<"w", "a", "r", "n", "i", "n", "g">>},
             p \in {<<>>, <<"c", "r", "i", "t", "i", "c", "a", "l">>} }
    \cup { Sarif(<<SarifRun(<<>>, r), SarifRun(<<>>, q)>>) :
             r \in {<<>>, <<SarifResult(<<"r", "1">>, <<"f">>, 12, <<"m">>, <<>>)>>},
             q \in {<<>>, <<SarifResult(<<"r", "2">>, <<"g">>, 7, <<"n">>, <<>>)>>} }
    \cup { Sarif(<<>>) }
    \cup { [tool |-> "harness", kind |-> "other"] }

\* the array path throws: r.id of a null entry
genericThrows(items) == \E i \in 1..Len(items) : items[i] = NullEntry

\* the normalizer throws a TypeError for the payload
normalizeThrows(payload) ==
    payload.tool = "semgrep" /\ payload.kind = "list" /\ genericThrows(payload.items)

\* the result callback of streamLogs for a result request that answers with
\* the payload fetched; an exception of the normalizer ends the callback
ResultDeliveredOf(r, createdAt) ==
    /\ BagIn(r, resultReqs)
    /\ BagCardinality(enrichPending) < MaxPending
    /\ resultReqs' = resultReqs (-) SetToBag({r})
    /\ IF normalizeThrows(rawPayload)
       THEN UNCHANGED <<findings, enrichPending, scanPhase>>
       ELSE LET normalized == normalize(rawPayload, createdAt)
            IN  /\ findings' = add(findings, normalized)
                /\ enrichPending' = enrichPending (+) SetToBag({normalized})
                /\ scanPhase' = resultPhase(scanPhase)
    /\ UNCHANGED <<chatVars, rev, rawPayload, aiText, nStarts, nFetches, startPending, scanSession,
                   resultFile, logs, logSubs, fetchCount, fetchErrors>>

ResultDelivered ==
    \E r \in BagToSet(resultReqs), createdAt \in Times : ResultDeliveredOf(r, createdAt)

NextNormalize ==
    \/ ResultDelivered
    \/ EnrichResolve
    \/ EnrichReject

\* result requests of one file in flight at once
MaxDeliveries == 2

\* the result callback for every payload, the result file requested more than
\* once
InitNormalize ==
    /\ rawPayload \in RawPayloads
    /\ rev = "perTool"
    /\ nStarts = 0
    /\ nFetches = 0
    /\ startPending = [t \in Tools |-> 0]
    /\ scanSession = NoSession
    /\ scanPhase = "idle"
    /\ resultFile = None
    /\ logs = 0
    /\ logSubs = [t \in Tools |-> NoSub]
    /\ resultReqs = ReqBag(rawPayload.tool, [i \in 1..MaxDeliveries |-> "result"])
    /\ fetchCount = [t \in Tools |-> 0]
    /\ fetchErrors = [t \in Tools |-> 0]
    /\ findings = <<>>
    /\ enrichPending = EmptyBag
    /\ aiText = NoText
    /\ InitChat

SpecNormalize == InitNormalize /\ [][NextNormalize]_vars

(* ------------------------------------------------------------------ *)
(* The chat box: ChatService and AiChatboxComponent                    *)
(* ------------------------------------------------------------------ *)
\* streamReply calls in one run
MaxReplies == 3

\* deltas one reply stream delivers at most
MaxDeltas == 2

\* messages the chat holds at most
MaxMessages == 5

\* the texts handed to sendToChat and typed into the draft: blank, and a prompt
ChatInputs == { <<" ">>, <<"h", "i">> }

\* a chat message; reply is the streamReply call an assistant bubble was
\* created by, 0 for every other message
ChatMessage(role, content, reply) == [role |-> role, content |-> content, reply |-> reply]

\* ChatService.sendToChat on the array of messages
sendToChat(m, content) ==
    IF trim(content) = <<>> THEN m
    ELSE Append(m, ChatMessage("user", trim(content), 0))

\* ChatService.startAssistant on the array of messages
startAssistant(m, reply) == Append(m, ChatMessage("assistant", <<>>, reply))

\* ChatService.appendToAssistant on the array of messages; a delta is
\* [reply, text]
appendToAssistant(m, delta) ==
    IF m = <<>> THEN m
    ELSE IF m[Len(m)].role # "assistant" THEN m
    ELSE [m EXCEPT ![Len(m)].content = Append(@, delta)]

\* a reply stream: in flight, aborted by its controller and still to reject,
\* or settled; the deltas it delivered
NewReply == [status |-> "active", delivered |-> 0]

\* the reply streams in flight and not aborted
ActiveReplies == { s \in 1..Len(replies) : replies[s].status = "active" }

\* AbortController.abort() of the controller of reply s
abortReply(rs, s) ==
    IF s \in 1..Len(rs) /\ rs[s].status = "active"
    THEN [rs EXCEPT ![s].status = "aborted"] ELSE rs

\* sendToChat called from a findings view
SendToChat(content) ==
    /\ Len(messages) < MaxMessages
    /\ messages' = sendToChat(messages, content)
    /\ effectPending' = (effectPending \/ messages' # messages)
    /\ UNCHANGED <<streaming, abort, replies, scanVars>>

\* AiChatboxComponent.send with the draft typed
Send(draft) ==
    /\ Len(messages) < MaxMessages
    /\ IF trim(draft) = <<>> \/ streaming
       THEN UNCHANGED <<messages, effectPending>>
       ELSE /\ messages' = sendToChat(messages, trim(draft))
            /\ effectPending' = TRUE
    /\ UNCHANGED <<streaming, abort, replies, scanVars>>

\* AiChatboxComponent.stop
Stop ==
    /\ replies' = IF streaming THEN abortReply(replies, abort) ELSE replies
    /\ streaming' = FALSE
    /\ UNCHANGED <<messages, abort, effectPending, scanVars>>

\* AiChatboxComponent.clear: stop, then ChatService.clear
Clear_chat ==
    /\ replies' = IF streaming THEN abortReply(replies, abort) ELSE replies
    /\ streaming' = FALSE
    /\ messages' = <<>>
    /\ effectPending' = TRUE
    /\ UNCHANGED <<abort, scanVars>>

\* the effect of the constructor runs: streamReply up to its await when the
\* last message is the user's and no reply is streaming; startAssistant writes
\* the signal the effect reads, which schedules the effect again
EffectRun ==
    /\ effectPending
    /\ IF messages # <<>> /\ ~streaming /\ messages[Len(messages)].role = "user"
       THEN /\ Len(replies) < MaxReplies
            /\ messages' = startAssistant(messages, Len(replies) + 1)
            /\ streaming' = TRUE
            /\ abort' = Len(replies) + 1
            /\ replies' = Append(replies, NewReply)
            /\ effectPending' = TRUE
       ELSE /\ effectPending' = FALSE
            /\ UNCHANGED <<messages, streaming, abort, replies>>
    /\ UNCHANGED scanVars

\* reply s delivers a delta: the onChunk callback of streamReply
Delta(s) ==
    /\ s \in ActiveReplies
    /\ replies[s].delivered < MaxDeltas
    /\ replies' = [replies EXCEPT ![s].delivered = @ + 1]
    /\ messages' = appendToAssistant(messages, [reply |-> s, text |-> "delta"])
    /\ effectPending' = (effectPending \/ messages' # messages)
    /\ UNCHANGED <<streaming, abort, scanVars>>

\* invokeStream of reply s resolves: the finally of streamReply
StreamEnd(s) ==
    /\ s \in ActiveReplies
    /\ replies' = [replies EXCEPT ![s].status = "done"]
    /\ streaming' = FALSE
    /\ UNCHANGED <<messages, abort, effectPending, scanVars>>

\* invokeStream of reply s rejects, on a failure or on the abort of its
\* controller: the catch of streamReply, then its finally
StreamFail(s) ==
    /\ s \in 1..Len(replies)
    /\ replies[s].status \in {"active", "aborted"}
    /\ replies' = [replies EXCEPT ![s].status = "failed"]
    /\ messages' = appendToAssistant(messages, [reply |-> s, text |-> "[Error]"])
    /\ effectPending' = (effectPending \/ messages' # messages)
    /\ streaming' = FALSE
    /\ UNCHANGED <<abort, scanVars>>

NextChat ==
    \/ \E content \in ChatInputs : SendToChat(content)
    \/ \E draft \in ChatInputs : Send(draft)
    \/ Stop
    \/ Clear_chat
    \/ EffectRun
    \/ \E s \in 1..MaxReplies : Delta(s)
    \/ \E s \in 1..MaxReplies : StreamEnd(s)
    \/ \E s \in 1..MaxReplies : StreamFail(s)

SpecChat == Init /\ [][NextChat]_vars

\* the chat box with the effect run whenever it is scheduled and every reply
\* stream settled in the end
SpecChatFair ==
    /\ SpecChat
    /\ WF_vars(EffectRun)
    /\ \A s \in 1..MaxReplies : WF_vars(StreamEnd(s) \/ StreamFail(s))

(* ------------------------------------------------------------------ *)
(* Claims                                                              *)
(* ------------------------------------------------------------------ *)

\* C1: completion-marker single-fire: however often the matching line is
\* delivered to one polling loop, in one chunk or over several, the loop
\* issues at most one result fetch.
C1_SingleFire == \A t \in Tools : fetchCount[t] <= 1

\* C2: the scenario of the scanner: issuing the start sets starting; the start
\* response with a task handle records the session and sets scanning; the chunk
\* with one matching line and end=true issues exactly one result fetch and
\* ends the loop, and the phase is completed when the end of the stream is
\* handled (single-subscription revision) and when the result arrives.
C2_Scenario ==
    [][ /\ (nStarts' # nStarts) => scanPhase' = "starting"
        /\ \A id \in TaskIds :
             StartResponseWith("semgrep", id) =>
               /\ scanPhase' = "scanning"
               /\ scanSession' = [taskId |-> id, repo |-> Repo, tool |-> "semgrep"]
               /\ logSubs'["semgrep"].status = "active"
        /\ \A ch \in Chunks :
             (ch.lines = <<"semgrep-results">> /\ ch.end /\ PollResponseWith("semgrep", ch)) =>
               /\ fetchCount'["semgrep"] = fetchCount["semgrep"] + 1
               /\ BagCardinality(resultReqs') = BagCardinality(resultReqs) + 1
               /\ logSubs'["semgrep"].status = "completed"
               /\ (rev = "single" => scanPhase' = "completed")
        /\ (BagCardinality(enrichPending') > BagCardinality(enrichPending))
             => scanPhase' = "completed"
      ]_vars

\* C2 witness: the scanner's session went through one start, its loop ended on
\* its first chunk, which issued the one result fetch, and the phase is completed
C2_ScenarioReached ==
    /\ nStarts = 1
    /\ scanSession.tool = "semgrep"
    /\ logSubs["semgrep"].status = "completed"
    /\ logSubs["semgrep"].polls = 1
    /\ fetchCount["semgrep"] = 1
    /\ scanPhase = "completed"
    /\ findings # <<>>

\* C3: every change of the phase follows idle -> starting -> scanning ->
\* {completed | error}: completed is entered only from scanning, error only
\* from starting or scanning, scanning only from starting; the ways back are
\* clearSession (to idle) and a new startScan (to starting).
C3_PhaseMachine ==
    [][ scanPhase' # scanPhase =>
          \/ scanPhase' = "starting"
          \/ scanPhase' = "idle"
          \/ scanPhase = "starting" /\ scanPhase' \in {"scanning", "error"}
          \/ scanPhase = "scanning" /\ scanPhase' \in {"completed", "error"}
      ]_vars

\* C4: once the phase is error, nothing moves it to completed or scanning
\* (only a new startScan leaves error, to starting, or clearSession, to idle).
C4_ErrorIsTerminal ==
    [][ scanPhase = "error" => scanPhase' \notin {"completed", "scanning"} ]_vars

\* C5: a start request that fails, or answers without a taskId, sets the phase
\* to error, records no session and starts no polling.
C5_StartFailure ==
    [][ \A t \in Tools :
          (StartError(t) \/ StartResponseWith(t, NoTask)) =>
            /\ scanPhase' = "error"
            /\ scanSession' = scanSession
            /\ logSubs' = logSubs
      ]_vars

\* C6: whenever a polling loop receives a chunk with end=true, the phase
\* becomes completed, with or without a detected marker or a fetched result.
C6_EndCompletes ==
    [][ \A t \in Tools : \A ch \in Chunks :
          (ch.end /\ PollResponseWith(t, ch)) => scanPhase' = "completed"
      ]_vars

\* C7: termination is one-shot: the chunk with end=true is delivered whole
\* (its lines reach the log buffer, followed by the one completion entry) and
\* ends the loop; an ended loop has no request in flight and stays as it is,
\* issuing no further log request, until startLogPolling replaces it.
\* (A chunk is only looked at in the steps that answer a request of the loop.)
C7_OneShotEnd ==
    [][ \A t \in Tools :
          /\ (logSubs[t].req # NoReq /\ logSubs'[t].req = NoReq) =>
               \A ch \in Chunks :
                 (ch.end /\ PollResponseWith(t, ch)) =>
                   /\ logs' = logs + Len(ch.lines) + 1
                   /\ logSubs'[t].status = "completed"
                   /\ logSubs'[t].req = NoReq
          /\ logSubs[t].status = "completed" =>
               \/ logSubs'[t] = logSubs[t]
               \/ startPending'[t] < startPending[t] /\ logSubs'[t] = NewSub(logSubs'[t].taskId)
      ]_vars

\* C7 witness: a loop ended by its second chunk
C7_LoopEnded ==
    /\ logSubs["semgrep"].status = "completed"
    /\ logSubs["semgrep"].polls = 2
    /\ logs >= 3

\* C8: a failed log request does not end the polling loop: the loop is still
\* running after it.
C8_PollFailureKeepsLoop ==
    [][ \A t \in Tools : PollError(t) => logSubs'[t].status = "active" ]_vars

\* C9: a failed result fetch leaves the findings store as it was, issues no
\* further result request, and leaves the polling loops and the phase alone,
\* so the loop still runs and may end normally.
C9_FetchFailureIsLocal ==
    [][ fetchErrors' # fetchErrors =>
          /\ findings' = findings
          /\ nFetches' = nFetches
          /\ fetchCount' = fetchCount
          /\ BagCardinality(resultReqs') = BagCardinality(resultReqs) - 1
          /\ logSubs' = logSubs
          /\ scanPhase' = scanPhase
          /\ enrichPending' = enrichPending
      ]_vars

\* C9 witness: the one result fetch of a loop failed, nothing reached the
\* store, and the loop ended normally
C9_FailedThenEnded ==
    /\ fetchErrors["semgrep"] = 1
    /\ fetchCount["semgrep"] = 1
    /\ findings = <<>>
    /\ logSubs["semgrep"].status = "completed"
    /\ logSubs["semgrep"].polls = 2

\* an event of one tool: its start answering or failing, its poll ticking,
\* answering or failing, one of its result fetches answering or failing
ToolEvent(t) ==
    \/ StartResponse(t)
    \/ StartError(t)
    \/ Tick(t)
    \/ PollResponse(t, Chunks)
    \/ PollError(t)
    \/ \E r \in BagToSet(resultReqs) :
         r.tool = t /\ (ResultErrorOf(r) \/ \E payload \in Payloads : ResultResponseOf(r, payload))

\* C10: sessions of different tools are independent: while the session of one
\* tool is recorded, no event of another tool changes the recorded session or
\* the phase.
C10_ToolsIndependent ==
    [][ \A t \in Tools :
          (scanSession # NoSession /\ scanSession.tool # t /\ ToolEvent(t)) =>
            /\ scanSession' = scanSession
            /\ scanPhase' = scanPhase
      ]_vars

\* C11: each tool's polling loop is independently stoppable: startLogPolling
\* (run by the start response with a task handle) or stopLogPolling for one
\* tool leaves the running loop of every other tool as it is.
C11_LoopsIndependent ==
    [][ \A t \in Tools : \A u \in Tools \ {t} :
          ( /\ logSubs[u].status = "active"
            /\ \/ \E id \in TaskIds : StartResponseWith(t, id)
               \/ StopLogPollingWith(t) )
          => logSubs'[u] = logSubs[u]
      ]_vars

\* the ids of a record list
IdsOf(list) == { list[i].id : i \in 1..Len(list) }

\* the last record of a list under an id
LastOf(list, id) ==
    list[CHOOSE i \in 1..Len(list) :
           list[i].id = id /\ \A j \in (i+1)..Len(list) : list[j].id # id]

\* two arrays hold the same records, whatever their order
SameRecords(x, y) ==
    { x[i] : i \in 1..Len(x) } = { y[i] : i \in 1..Len(y) }

\* the lists add is called with: by other callers, with a normalizer's output,
\* with what enrichFindings resolved with
MergeLists ==
    AddLists \cup
    UNION { { enrichFindings(b, m) : m \in { x \in AiReplies(b) : ~enrichThrows(x) } } :
            b \in NormBatches }

\* C12: merge idempotence: for every store state and every record list X,
\* add(X) twice in a row leaves the store as add(X) once does.
C12_AddIdempotent ==
    \A X \in MergeLists : add(add(findings, X), X) = add(findings, X)

\* C12 witness: the store holds a list with a repeated id merged onto a record
\* that carried enrichment fields, and adding that list again changes nothing
C12_AddedAgain ==
    /\ \E i \in 1..Len(findings) :
         findings[i].id = "a" /\ Get(findings[i], "aiExplanation") = "old"
                              /\ findings[i].tool = "harness"
    /\ add(findings, <<NormA, [id |-> "a", tool |-> "harness", severity |-> "low"]>>) = findings

\* C13: merge commutativity: for lists A and B that share no id, add(A); add(B)
\* and add(B); add(A) give the same id-to-record mapping; for lists that share
\* an id, the record under that id after add(A); add(B) has B's value in every
\* field B's record supplies.
C13_AddCommutes ==
    \A A \in AddLists : \A B \in AddLists :
      LET ab == add(add(findings, A), B)
          ba == add(add(findings, B), A)
      IN  /\ (IdsOf(A) \cap IdsOf(B) = {}) => SameRecords(ab, ba)
          /\ \A id \in IdsOf(A) \cap IdsOf(B) :
               LET b == LastOf(B, id)
                   r == ab[IndexOfId(ab, id)]
               IN  \A k \in DOMAIN b : k \in DOMAIN r /\ r[k] = b[k]

\* C13 witness: the store holds records under both ids, as two lists without a
\* common id leave it, one of them enriched before
C13_BothAdded ==
    /\ IdsOf(findings) = {"a", "c"}
    /\ \E i \in 1..Len(findings) : Get(findings[i], "aiExplanation") = "old"
    /\ add(add(findings, <<NormA>>), <<[id |-> "c", tool |-> "semgrep", severity |-> "low"]>>) = findings

\* C14: in every reachable state of the store, after any sequence of add,
\* patch, clear and mock loading, no two stored records have the same id.
C14_UniqueIds ==
    \A i \in 1..Len(findings) : \A j \in 1..Len(findings) :
      i # j => findings[i].id # findings[j].id

\* a field value that is a value: neither undefined nor null
HasValue(v) == v # Undefined /\ v # None

\* a step in which add runs: called directly, by the result callback, or with
\* the batch enrichFindings resolved with
AddStep ==
    \/ \E list \in AddLists : Add(list)
    \/ \E batch \in NormBatches : Normalized(batch)
    \/ EnrichAnswer

\* C15: merging never drops a previously-set field: after add(list), every
\* field that had a value on a stored record still has a value on the record
\* of that id, for normalizer output and for the batch enrichFindings returns.
C15_AddKeepsFields ==
    [][ AddStep =>
          \A i \in 1..Len(findings) : \A j \in 1..Len(findings') :
            findings'[j].id = findings[i].id =>
              \A k \in DOMAIN findings[i] :
                HasValue(findings[i][k]) =>
                  k \in DOMAIN findings'[j] /\ HasValue(findings'[j][k])
      ]_vars

\* the record an array holds under an id
RecordOf(arr, id) == arr[IndexOfId(arr, id)]

\* the ids of the batch that the parsed array does not name
Omitted(batch, maybe) ==
    { id \in IdsOf(batch) :
        \A n \in 1..Len(maybe.items) : Get(maybe.items[n], "id") # id }

FailedReplies(batch) ==
    { m \in AiReplies(batch) : ~m.isArray \/ Omitted(batch, m) = IdsOf(batch) }

C18_EnrichAlwaysResolves ==
    [][ BagCardinality(enrichPending') < BagCardinality(enrichPending) =>
          \E batch \in BagToSet(enrichPending) :
            \E maybe \in AiReplies(batch) :
              /\ ~enrichThrows(maybe)
              /\ EnrichResolveOf(batch, maybe)
      ]_vars

\* C19: in every reachable state every record of the findings store has a
\* severity, and it is one of critical, high, medium, low, info, unknown
C19_SeverityInEnum ==
    \A i \in 1..Len(findings) :
        /\ "severity" \in DOMAIN findings[i]
        /\ findings[i].severity \in Severities

\* C20: the tool of a stored record is immutable: a record whose id is in the
\* store before and after a step has the same tool before and after it
C20_ToolImmutable ==
    [][ \A id \in IdsOf(findings) \cap IdsOf(findings') :
          RecordOf(findings', id).tool = RecordOf(findings, id).tool
      ]_vars

\* C21: the findings store is append-only: an id that is in the store stays in
\* it over every step that is not a clear
C21_AppendOnly ==
    [][ (\A tool \in Tools \cup {None} : ~Clear(tool)) =>
          IdsOf(findings) \subseteq IdsOf(findings')
      ]_vars

\* ToolKind of the finding model
ToolKinds == {"semgrep", "vanta", "harness"}

\* C22: clear(kind) removes exactly the records whose tool is kind: afterwards
\* byTool(kind) is empty, byTool(other) is what it was for every other tool and
\* nothing else is in the store; clear() empties the store
C22_ClearByTool ==
    [][ \A tool \in Tools \cup {None} :
          Clear(tool) =>
            IF tool = None THEN findings' = <<>>
            ELSE /\ byTool(findings', tool) = <<>>
                 /\ \A other \in ToolKinds \ {tool} :
                      byTool(findings', other) = byTool(findings, other)
                 /\ Len(findings') = Len(findings) - Len(byTool(findings, tool))
      ]_vars

\* C22 witness: the mock list after clear("semgrep"): the records of the
\* other tools are what is left
C22_ScannerCleared ==
    findings = << [id |-> "vanta-001", tool |-> "vanta", severity |-> "medium"],
                  [id |-> "harness-001", tool |-> "harness", severity |-> "medium"] >>

\* C23: every record of the request enrichFindings sends has no raw payload, a
\* message of at most 400 characters and a snippet of at most 800; the records
\* of the store keep the raw payload, the message and the location the
\* normalizer gave, before and after the enrichment is merged
C23_RequestSanitized ==
    /\ \A batch \in BagToSet(enrichPending) :
         \A i \in 1..Len(batch) :
           LET r == aiRequest(batch)[i]
           IN  /\ "raw" \notin DOMAIN r
               /\ Len(r.message) <= 400
               /\ "location" \in DOMAIN r => Len(r.location.snippet) <= 800
               /\ "raw" \in DOMAIN batch[i] /\ batch[i].raw = "result"
    /\ \A i \in 1..Len(findings) :
         \E r \in {RawA, RawB, RawC} :
           /\ r.id = findings[i].id
           /\ findings[i].raw = r.raw
           /\ findings[i].message = r.message
           /\ "location" \in DOMAIN findings[i] =>
                findings[i].location \in {RawA.location, RawB.location}

\* C23 witness: the record with the long message and snippet went through the
\* request, its enrichment is merged, and the store holds it with its raw
\* payload and its whole message
C23_EnrichedKeepsRaw ==
    /\ enrichPending = EmptyBag
    /\ Len(findings) = 1
    /\ findings[1].id = "a"
    /\ Get(findings[1], "aiExplanation") = "why"
    /\ findings[1].raw = "result"
    /\ Len(findings[1].message) = maxMsg + 1
    /\ Len(findings[1].location.snippet) = maxSnippet + 1

\* C27: repair on truncation: for the text [{"id":"a","x":1},{"id":"b","x":2
\* JSON.parse fails, the repair step yields the text [{"id":"a","x":1}], and
\* tryParseJSON returns the array holding the one object with id "a" and x 1
C27_RepairOnTruncation ==
    aiText = Truncated(33) =>
      /\ Len(aiText) = 33 /\ aiText[33] = "2"
      /\ ~JSONParse(aiText).ok
      /\ repairLikelyJSONArray(aiText) =
           [ok |-> TRUE,
            s  |-> << "[", "{", "\"", "i", "d", "\"", ":", "\"", "a", "\"", ",",
                      "\"", "x", "\"", ":", "1", "}", "]" >>]
      /\ tryParseJSON(aiText) =
           JArr(<< JObj(<< <<Spell("id"), JStr(<<"a">>)>>,
                          <<Spell("x"), JNum(<<"1">>)>> >>) >>)

\* C27 witness: the truncated text was the answer for a batch of the records a
\* and b, and the merge took an entry for a and none for b
C27_TruncatedMerged ==
    /\ aiText = Truncated(33)
    /\ enrichPending = EmptyBag
    /\ Len(findings) = 2
    /\ findings[1].id = "a" /\ "aiExplanation" \in DOMAIN findings[1]
    /\ findings[2].id = "b" /\ "aiExplanation" \notin DOMAIN findings[2]

\* what the id of a structured-report record is said to be derived from
IdKey(f) == <<f.ruleId, f.location.file, f.location.line, slice(f.message, IdMessageLen)>>

\* C24: the id the structured-report normalizer gives a result is a function of
\* its rule, file, line and truncated message: stored records of the report that
\* agree on the four have the same id
C24_IdFromKey ==
    \A i, j \in 1..Len(findings) :
      ("ruleSeverity" \in DOMAIN findings[i] /\ "ruleSeverity" \in DOMAIN findings[j]
       /\ IdKey(findings[i]) = IdKey(findings[j]))
      => findings[i].id = findings[j].id

\* C26: toSeverity maps error, warning, note, blocker, info and the empty
\* string to high, medium, low, critical, low and unknown, in any letter case,
\* and every input outside its vocabulary to unknown: every stored record of
\* the structured report has the severity the table gives for its raw level
C26_SeverityNormalization ==
    \A i \in 1..Len(findings) :
      "ruleSeverity" \in DOMAIN findings[i] =>
        LET raw == findings[i].ruleSeverity
            sev == findings[i].severity
        IN
         /\ raw = <<"e", "r", "r", "o", "r">> => sev = "high"
         /\ raw = <<"w", "a", "r", "n", "i", "n", "g">> => sev = "medium"
         /\ raw = <<"n", "o", "t", "e">> => sev = "low"
         /\ raw = <<"b", "l", "o", "c", "k", "e", "r">> => sev = "critical"
         /\ raw = <<"i", "n", "f", "o">> => sev = "low"
         /\ raw = <<"E", "R", "R", "O", "R">> => sev = "high"
         /\ raw = <<"W", "a", "r", "n", "i", "n", "g">> => sev = "medium"
         /\ raw = <<"N", "O", "T", "E">> => sev = "low"
         /\ raw = <<"B", "l", "o", "c", "k", "e", "r">> => sev = "critical"
         /\ raw = <<"I", "N", "F", "O">> => sev = "low"
         /\ raw = <<"c", "r", "i", "t", "i", "c", "a", "l">> => sev = "critical"
         /\ raw = <<"C", "r", "i", "t", "i", "c", "a", "l">> => sev = "critical"
         /\ raw = <<"h", "i", "g", "h">> => sev = "high"
         /\ raw = <<"m", "e", "d", "i", "u", "m">> => sev = "medium"
         /\ raw = <<"l", "o", "w">> => sev = "low"
         /\ raw = <<>> => sev = "unknown"
         /\ raw \notin { <<"e", "r", "r", "o", "r">>,
                        <<"w", "a", "r", "n", "i", "n", "g">>,
                        <<"n", "o", "t", "e">>,
                        <<"b", "l", "o", "c", "k", "e", "r">>,
                        <<"i", "n", "f", "o">>,
                        <<"E", "R", "R", "O", "R">>,
                        <<"W", "a", "r", "n", "i", "n", "g">>,
                        <<"N", "O", "T", "E">>,
                        <<"B", "l", "o", "c", "k", "e", "r">>,
                        <<"I", "N", "F", "O">>,
                        <<"c", "r", "i", "t", "i", "c", "a", "l">>,
                        <<"C", "r", "i", "t", "i", "c", "a", "l">>,
                        <<"h", "i", "g", "h">>,
                        <<"m", "e", "d", "i", "u", "m">>,
                        <<"l", "o", "w">> }
            => sev = "unknown"

\* a result of the scanner's report whose level is Blocker is stored with
\* severity critical
C26_BlockerStored ==
    /\ \E i \in 1..Len(findings) :
         /\ "ruleSeverity" \in DOMAIN findings[i]
         /\ findings[i].ruleSeverity = <<"B", "l", "o", "c", "k", "e", "r">>
         /\ findings[i].severity = "critical"
    /\ rawPayload.tool = "semgrep"

\* C25: a result payload delivered again (fetched, normalized and merged once
\* more, the session being completed by the first delivery) leaves the store
\* with the same set of record ids and the same number of records
C25_DuplicateDelivery ==
    [][ (scanPhase = "completed"
         /\ BagCardinality(enrichPending') > BagCardinality(enrichPending))
        => (IdsOf(findings') = IdsOf(findings) /\ Len(findings') = Len(findings)) ]_vars

\* the summary of the pipeline tool was delivered, its two records were
\* enriched, and it was delivered again: an enrichment is pending and the store
\* holds the two records, enriched
C25_DeliveredTwice ==
    /\ rawPayload.tool = "harness"
    /\ enrichPending # EmptyBag
    /\ \E i \in 1..Len(findings) :
         /\ "aiExplanation" \in DOMAIN findings[i]
         /\ findings[i].createdAt = "t2"
    /\ Len(findings) = 2

\* C28: within one polling loop the first log request carries no cursor, every
\* later request carries the stored cursor, which is the one the most recent
\* response that supplied a cursor returned, and a response that omits the
\* cursor leaves the stored cursor unchanged
C28_CursorHandling ==
    [][ LET s == logSubs["semgrep"]
            n == logSubs'["semgrep"]
        IN  /\ (n.polls = 1 /\ n.req # NoReq) => (n.req = "" /\ n.cursor = "")
            /\ (n.polls > s.polls /\ s.polls >= 1) => (n.req = s.cursor /\ n.cursor = s.cursor)
            /\ \A ch \in ScannerChunks :
                 PollResponseWith("semgrep", ch)
                 => n.cursor = (IF ch.cursor = "" THEN s.cursor ELSE ch.cursor)
            /\ (\A ch \in ScannerChunks : ~PollResponseWith("semgrep", ch))
               => (n.cursor = s.cursor \/ (n.polls = 1 /\ n.cursor = ""))
      ]_vars

\* the second request of a loop is in flight and carries the cursor the first
\* response returned
C28_SecondRequestCarriesCursor ==
    LET s == logSubs["semgrep"]
    IN  s.status = "active" /\ s.polls = 2 /\ s.req = "c2" /\ s.cursor = "c2"

\* C29: when the phase becomes completed while a result fetch of a detected
\* result file is outstanding, the step is the callback of a result fetch,
\* which merges its records before it sets the phase: the phase is never
\* completed ahead of the records of a fetch that is still to answer
C29_CompletedAfterMerge ==
    [][ (scanPhase # "completed" /\ scanPhase' = "completed" /\ resultReqs' # EmptyBag)
        => BagCardinality(resultReqs') < BagCardinality(resultReqs) ]_vars

\* C30: merging the enriched batch when the completion call returns does not
\* overwrite what another store operation wrote while the call was pending: a
\* field of a stored record whose value differs from the one in the batch handed
\* to the call, and which the completion service did not supply, keeps the
\* stored value
C30_NoLostUpdate ==
    \A batch \in BagToSet(enrichPending) :
      \A maybe \in AiReplies(batch) :
        ~enrichThrows(maybe) =>
          LET after == add(findings, enrichFindings(batch, maybe))
          IN  \A id \in IdsOf(batch) \cap IdsOf(findings) :
                \A k \in DOMAIN RecordOf(findings, id) \cap DOMAIN LastOf(batch, id) :
                  (/\ RecordOf(findings, id)[k] # LastOf(batch, id)[k]
                   /\ \A n \in 1..Len(maybe.items) :
                        Get(maybe.items[n], "id") = id => k \notin DOMAIN maybe.items[n])
                  => RecordOf(after, id)[k] = RecordOf(findings, id)[k]

\* C31: normalization never throws: every step in which a result request is
\* answered leaves the phase completed
C31_CallbackCompletes ==
    [][ BagCardinality(resultReqs') < BagCardinality(resultReqs)
        => scanPhase' = "completed" ]_vars

\* C32: for the text Here: [{"id":"a"}] done, a complete array followed by
\* trailing text, repairLikelyJSONArray returns the array from the first [ to
\* the ] that closes it, and tryParseJSON returns that array
C32_RepairCutsAtBalance ==
    aiText = TextProse =>
      /\ SubSeq(aiText, 7, 18) =
           << "[", "{", "\"", "i", "d", "\"", ":", "\"", "a", "\"", "}", "]" >>
      /\ repairLikelyJSONArray(aiText) = [ok |-> TRUE, s |-> SubSeq(aiText, 7, 18)]
      /\ tryParseJSON(aiText) = JArr(<< JObj(<< <<Spell("id"), JStr(<<"a">>)>> >>) >>)

\* C33: the structured-report normalizer resolves the severity of a result
\* from the first value present among the result's level, the severity of the
\* result's properties and the matched rule's configured level, and gives
\* unknown when none is present
C33_ThreeSources ==
    \A i \in 1..Len(findings) :
      "ruleSeverity" \in DOMAIN findings[i] =>
        LET r == findings[i].raw
            rule == driverRule(rawPayload.runs[1].rules, findings[i].ruleId)
            first == IF r.level # <<>> THEN r.level
                     ELSE IF r.severity # <<>> THEN r.severity
                     ELSE rule.level
        IN  /\ findings[i].ruleSeverity = first
            /\ first = <<>> => findings[i].severity = "unknown"

\* C33, amended: the severity is resolved from the first value present among
\* the result's level, the severity of the result's properties, the severity of
\* the matched rule's properties and the level of the matched rule's default
\* configuration, and is unknown when none is present
C33_FourSources ==
    \A i \in 1..Len(findings) :
      "ruleSeverity" \in DOMAIN findings[i] =>
        LET r == findings[i].raw
            rule == driverRule(rawPayload.runs[1].rules, findings[i].ruleId)
            first == IF r.level # <<>> THEN r.level
                     ELSE IF r.severity # <<>> THEN r.severity
                     ELSE IF rule.severity # <<>> THEN rule.severity
                     ELSE rule.level
        IN  /\ findings[i].ruleSeverity = first
            /\ first = <<>> => findings[i].severity = "unknown"

\* a result without level and properties, whose rule has a severity in its
\* properties and a level in its default configuration, is stored with the
\* severity of the rule's properties
C33_RulePropertiesWin ==
    \E i \in 1..Len(findings) :
      /\ "ruleSeverity" \in DOMAIN findings[i]
      /\ findings[i].raw.level = <<>> /\ findings[i].raw.severity = <<>>
      /\ driverRule(rawPayload.runs[1].rules, findings[i].ruleId) =
           SarifRule(<<"r", "1">>, <<"e", "r", "r", "o", "r">>, <<"n", "o", "t", "e">>)
      /\ findings[i].ruleSeverity = <<"e", "r", "r", "o", "r">>
      /\ findings[i].severity = "high"

\* the results of all runs of a structured report
RECURSIVE ResultCount(_)
ResultCount(runs) ==
    IF runs = <<>> THEN 0 ELSE Len(Head(runs).results) + ResultCount(Tail(runs))

\* C34: for a payload that passes the shape check of the structured report the
\* normalizer gives one record for every result of the payload, over all of its
\* runs: once the payload is delivered the store holds as many records as the
\* runs hold results
C34_OneRecordPerResult ==
    (isSarif(rawPayload) /\ scanPhase = "completed")
    => Len(findings) = ResultCount(rawPayload.runs)

\* C35: a stopped loop has no further effect: while the scanner's loop is
\* stopped, a step that answers a result request or ends an enrichment call
\* changes neither the findings store nor the phase nor the log buffer
C35_StoppedLoopSilent ==
    [][ (/\ logSubs["semgrep"].status = "stopped"
         /\ \/ BagCardinality(resultReqs') < BagCardinality(resultReqs)
            \/ BagCardinality(enrichPending') < BagCardinality(enrichPending))
        => (findings' = findings /\ scanPhase' = scanPhase /\ logs' = logs) ]_vars

\* C36: an enrichment call that was pending when clear ran does not put the
\* cleared records back: when the store is empty while a call is pending (the
\* records the call was started with were cleared), the step that ends the call
\* leaves the store empty
C36_ClearedStaysCleared ==
    [][ (/\ findings = <<>>
         /\ BagCardinality(enrichPending') < BagCardinality(enrichPending))
        => findings' = <<>> ]_vars

\* the fields enrichFindings may set
EnrichmentFields == {"severity", "aiExplanation", "aiRemediation"}

\* C37: enrichFindings changes nothing but enrichment fields: for every pending
\* batch and every reply it returns a batch for, the batch returned has exactly
\* the ids of the input batch, and every record of it has, outside severity,
\* aiExplanation and aiRemediation, the fields and values of an input record of
\* its id
C37_OnlyEnrichmentFields ==
    \A batch \in BagToSet(enrichPending) :
      \A maybe \in AiReplies(batch) :
        ~enrichThrows(maybe) =>
          LET out == enrichFindings(batch, maybe)
          IN  /\ IdsOf(out) = IdsOf(batch)
              /\ \A i \in 1..Len(out) :
                   \E n \in 1..Len(batch) :
                     /\ batch[n].id = out[i].id
                     /\ DOMAIN out[i] \ EnrichmentFields = DOMAIN batch[n] \ EnrichmentFields
                     /\ \A k \in DOMAIN batch[n] \ EnrichmentFields : out[i][k] = batch[n][k]

\* a batch of the records a and c was enriched by a reply that gave a a
\* severity and the enrichment texts: a is stored with them and with its tool
C37_SeverityEnriched ==
    /\ enrichPending = EmptyBag
    /\ Len(findings) = 2
    /\ findings[1] = [id |-> "a", tool |-> "semgrep", severity |-> "high",
                      aiExplanation |-> "why", aiRemediation |-> "fix"]
    /\ findings[2].id = "c" /\ findings[2].severity = "low"

\* C38: in the chat box at most one reply stream is in flight at any time,
\* whatever the interleaving of send, stop, clear, sendToChat from a findings
\* view and the end or abort of a stream.
C38_OneReplyInFlight == Cardinality(ActiveReplies) <= 1

\* the messages with the delta appended to the bubble created for its reply
appendToBubble(m, delta) ==
    IF \E i \in 1..Len(m) : m[i].reply = delta.reply
    THEN LET i == CHOOSE i \in 1..Len(m) : m[i].reply = delta.reply
         IN  [m EXCEPT ![i].content = Append(@, delta)]
    ELSE m

\* the last message of the chat is the user's
LastIsUser == messages # <<>> /\ messages[Len(messages)].role = "user"

\* C39: every delta a reply stream delivers is appended to the assistant
\* message created for that reply: none is dropped and none lands in another
\* message, also when a user message is added while the reply streams.
C39_DeltaToOwnBubble ==
    [][ \A s \in 1..Len(replies) :
          (Len(replies') = Len(replies)
             /\ replies'[s].delivered = replies[s].delivered + 1)
          => /\ \E i \in 1..Len(messages) : messages[i].reply = s
             /\ messages' = appendToBubble(messages, [reply |-> s, text |-> "delta"])
      ]_vars

\* C40: every user message added through sendToChat gets a reply stream
\* started for it in the end, also one added while an earlier reply streams,
\* given that every started stream ends (short of the bound on replies).
C40_UserMessageAnswered ==
    (LastIsUser /\ Len(replies) < MaxReplies)
       ~> (~LastIsUser \/ Len(replies) >= MaxReplies)

====
